---- MODULE Spec2Model ----
(***************************************************************************)
(* Analyst-question attribution and consolidation pipeline of              *)
(* server/earnings-tracker.ts.                                             *)
(*                                                                         *)
(* Strings.  A JavaScript string is modelled as the sequence of words it   *)
(* gives when split on single spaces: "Mike Ng" is <<"Mike", "Ng">>, the   *)
(* empty string is << >>, and a leading/trailing blank shows as an empty   *)
(* word (" Mike Ng" is <<"", "Mike", "Ng">>).  Words are alphabetic;       *)
(* toLowerCase, charAt(0).toUpperCase() and length are computed word by    *)
(* word from the vocabulary tables below; String.includes is containment   *)
(* of a contiguous run of words, the outer ones possibly inside longer     *)
(* words.                                                                  *)
(***************************************************************************)
EXTENDS Integers, Sequences, FiniteSets, TLC

(* ---------------------------------------------------------------------- *)
(* Bounds of the model                                                     *)
(* ---------------------------------------------------------------------- *)
MaxTranscripts == 2

MaxTotalTurns == 3

(* ---------------------------------------------------------------------- *)
(* Word-level string primitives                                            *)
(* ---------------------------------------------------------------------- *)

\* <<Capitalised form, lower-case form>> of the regular words of the vocabulary
WordForms ==
  { <<"Mike", "mike">>, <<"Michael", "michael">>, <<"Ng", "ng">>,
    <<"Jane", "jane">>, <<"Doe", "doe">>,
    <<"Barclays", "barclays">>, <<"Goldman", "goldman">>, <<"Sachs", "sachs">>,
    <<"Morgan", "morgan">>, <<"Stanley", "stanley">>,
    <<"Analyst", "analyst">>, <<"Operator", "operator">>,
    <<"Equity", "equity">>, <<"Research", "research">>,
    <<"Our", "our">>, <<"What", "what">>, <<"Thank", "thank">>,
    <<"Unknown", "unknown">>,
    <<"John", "john">>, <<"Roe", "roe">>, <<"Chief", "chief">>,
    <<"Financial", "financial">>, <<"Officer", "officer">>,
    <<"Director", "director">>, <<"Investor", "investor">>,
    <<"Relations", "relations">>, <<"Moderator", "moderator">>,
    <<"We", "we">>, <<"Good", "good">>,
    <<"Citibank", "citibank">>, <<"Scotiabank", "scotiabank">>,
    <<"Hubspot", "hubspot">>, <<"Acme", "acme">>, <<"Capital", "capital">>, <<"Partners", "partners">>,
    <<"Mike.", "mike.">>, <<"Can", "can">>, <<"And", "and">>, <<"Somehow", "somehow">>, <<"How,", "how,">> }

\* words written in capitals throughout
UpperForms ==
  { <<"CEO", "ceo">>, <<"CFO", "cfo">>,
    <<"RESEARCH", "research">>, <<"ANALYST", "analyst">>,
    <<"JP", "jp">>, <<"BARCLAYS", "barclays">>, <<"MIKE", "mike">>, <<"NG", "ng">> }

\* String.prototype.toLowerCase on one word
LowerWord(w) ==
  IF \E p \in WordForms \cup UpperForms : p[1] = w
    THEN (CHOOSE p \in WordForms \cup UpperForms : p[1] = w)[2]
    ELSE w

\* s.charAt(0).toUpperCase() + s.slice(1) on one word
Capitalize(w) ==
  IF \E p \in WordForms : p[2] = w
    THEN (CHOOSE p \in WordForms : p[2] = w)[1]
    ELSE w

\* String.prototype.toLowerCase
toLowerCase(s) == [i \in 1..Len(s) |-> LowerWord(s[i])]

\* number of characters of a word
WordLength(w) == Len(w)

RECURSIVE SumLengths(_)
SumLengths(s) == IF s = << >> THEN 0 ELSE WordLength(Head(s)) + SumLengths(Tail(s))

\* String.prototype.length: the characters of the words plus the blanks between them
StrLength(s) == IF s = << >> THEN 0 ELSE SumLengths(s) + (Len(s) - 1)

RECURSIVE TrimStart(_)
TrimStart(s) == IF s # << >> /\ Head(s) = "" THEN TrimStart(Tail(s)) ELSE s

RECURSIVE TrimEnd(_)
TrimEnd(s) ==
  IF s # << >> /\ s[Len(s)] = "" THEN TrimEnd(SubSeq(s, 1, Len(s) - 1)) ELSE s

\* String.prototype.trim
Trim(s) == TrimEnd(TrimStart(s))

\* s.trim().split(/\s+/): the non-empty words, or [""] for a blank string
SplitWhitespace(s) ==
  LET ws == SelectSeq(s, LAMBDA w : w # "")
  IN  IF ws = << >> THEN <<"">> ELSE ws

\* <<fragment, word, place>>: the lower-case words of the vocabulary that hold
\* a shorter fragment word, at their start, at their end or inside
SubWordTable ==
  { <<"ubs", "hubspot", "inside">>,
    <<"bank", "citibank", "end">>, <<"bank", "scotiabank", "end">>,
    <<"morgan", "jpmorgan", "end">>, <<"founder", "co-founder", "end">>,
    <<"our", "your", "end">>,
    <<"citi", "citibank", "start">>, <<"citi", "citigroup", "start">>,
    <<"scotia", "scotiabank", "start">>, <<"question", "questions", "start">>,
    <<"cto", "director", "inside">>, <<"chairman", "vice-chairman", "end">>,
    <<"vp", "svp", "end">>, <<"vp", "evp", "end">> }

\* word.includes(frag), word.startsWith(frag), word.endsWith(frag) for single words
WordHolds(word, frag, places) ==
  frag = word \/ \E p \in places : <<frag, word, p>> \in SubWordTable

\* String.prototype.includes(frag): the first word of frag ends a word of s,
\* the last one starts a word of s, the words between are words of s
Includes(s, frag) ==
  \E i \in 0..(Len(s) - Len(frag)) :
     IF Len(frag) = 1
       THEN WordHolds(s[i + 1], frag[1], {"start", "end", "inside"})
       ELSE /\ WordHolds(s[i + 1], frag[1], {"end"})
            /\ WordHolds(s[i + Len(frag)], frag[Len(frag)], {"start"})
            /\ \A j \in 2..(Len(frag) - 1) : s[i + j] = frag[j]

\* the value of a missing property of a segment
Undefined == <<"<undefined>">>

Unknown == <<"Unknown">>

\* (value || '') for a string property of a segment
OrEmpty(value) == IF value = Undefined THEN << >> ELSE value

(* ---------------------------------------------------------------------- *)
(* Normalizers                                                             *)
(* ---------------------------------------------------------------------- *)

\* nickname table of normalizeAnalystName
nameVariations ==
  [ k \in { "mike", "mike.", "mich", "jim", "jimmy", "jim.", "bob", "bobby", "rob",
            "dick", "rick", "rich", "bill", "billy", "will", "tom", "tommy",
            "dan", "danny", "dave", "davey", "chris", "nick", "alex", "steve",
            "ben", "matt", "tony", "joe", "joey", "sam", "sammy", "andy", "pat",
            "pete", "ed", "eddie", "ted", "frank", "greg", "jeff", "ken", "kenny",
            "brad", "marc", "jon", "johnny", "tim", "timmy" } |->
    CASE k \in {"mike", "mike.", "mich"} -> "michael"
      [] k \in {"jim", "jimmy", "jim."} -> "james"
      [] k \in {"bob", "bobby", "rob"} -> "robert"
      [] k \in {"dick", "rick", "rich"} -> "richard"
      [] k \in {"bill", "billy", "will"} -> "william"
      [] k \in {"tom", "tommy"} -> "thomas"
      [] k \in {"dan", "danny"} -> "daniel"
      [] k \in {"dave", "davey"} -> "david"
      [] k = "chris" -> "christopher"
      [] k = "nick" -> "nicholas"
      [] k = "alex" -> "alexander"
      [] k = "steve" -> "steven"
      [] k = "ben" -> "benjamin"
      [] k = "matt" -> "matthew"
      [] k = "tony" -> "anthony"
      [] k \in {"joe", "joey"} -> "joseph"
      [] k \in {"sam", "sammy"} -> "samuel"
      [] k = "andy" -> "andrew"
      [] k = "pat" -> "patrick"
      [] k = "pete" -> "peter"
      [] k \in {"ed", "eddie"} -> "edward"
      [] k = "ted" -> "theodore"
      [] k = "frank" -> "francis"
      [] k = "greg" -> "gregory"
      [] k = "jeff" -> "jeffrey"
      [] k \in {"ken", "kenny"} -> "kenneth"
      [] k = "brad" -> "bradley"
      [] k = "marc" -> "mark"
      [] k \in {"jon", "johnny"} -> "jonathan"
      [] k \in {"tim", "timmy"} -> "timothy" ]

\* normalizeAnalystName without the nickname table
normalizeAnalystName_NoNicknames(analystName) ==
  LET nameParts == SplitWhitespace(Trim(analystName))
  IN  <<Capitalize(LowerWord(nameParts[1])), Capitalize(LowerWord(nameParts[Len(nameParts)]))>>

\* normalizeAnalystName(analystName).normalizedName
normalizeAnalystName(analystName) ==
  LET nameParts == SplitWhitespace(Trim(analystName))
      firstName == LowerWord(nameParts[1])
      lastName == LowerWord(nameParts[Len(nameParts)])
      normalizedFirstName ==
        IF firstName \in DOMAIN nameVariations THEN nameVariations[firstName]
        ELSE firstName
  IN  <<Capitalize(normalizedFirstName), Capitalize(lastName)>>

\* the table of normalizeCompanyName, in the order Object.entries walks it
institutions ==
  << <<<<"jpmorgan">>, <<"JPMorgan", "Chase">>>>,
     <<<<"jp", "morgan">>, <<"JPMorgan", "Chase">>>>,
     <<<<"goldman">>, <<"Goldman", "Sachs">>>>,
     <<<<"goldman", "sachs">>, <<"Goldman", "Sachs">>>>,
     <<<<"morgan", "stanley">>, <<"Morgan", "Stanley">>>>,
     <<<<"barclays">>, <<"Barclays">>>>,
     <<<<"citigroup">>, <<"Citigroup">>>>,
     <<<<"citi">>, <<"Citigroup">>>>,
     <<<<"bank", "of", "america">>, <<"Bank", "of", "America">>>>,
     <<<<"bofa">>, <<"Bank", "of", "America">>>>,
     <<<<"wells", "fargo">>, <<"Wells", "Fargo">>>>,
     <<<<"deutsche", "bank">>, <<"Deutsche", "Bank">>>>,
     <<<<"credit", "suisse">>, <<"Credit", "Suisse">>>>,
     <<<<"ubs">>, <<"UBS">>>>,
     <<<<"hsbc">>, <<"HSBC">>>>,
     <<<<"rbc">>, <<"Royal", "Bank", "of", "Canada">>>>,
     <<<<"royal", "bank">>, <<"Royal", "Bank", "of", "Canada">>>>,
     <<<<"scotia">>, <<"Scotiabank">>>>,
     <<<<"scotiabank">>, <<"Scotiabank">>>>,
     <<<<"td", "bank">>, <<"TD", "Bank">>>>,
     <<<<"bmo">>, <<"Bank", "of", "Montreal">>>>,
     <<<<"jefferies">>, <<"Jefferies">>>>,
     <<<<"cowen">>, <<"Cowen">>>>,
     <<<<"piper", "sandler">>, <<"Piper", "Sandler">>>>,
     <<<<"wedbush">>, <<"Wedbush">>>>,
     <<<<"oppenheimer">>, <<"Oppenheimer">>>>,
     <<<<"stifel">>, <<"Stifel">>>>,
     <<<<"raymond", "james">>, <<"Raymond", "James">>>>,
     <<<<"baird">>, <<"Baird">>>>,
     <<<<"mizuho">>, <<"Mizuho">>>>,
     <<<<"evercore">>, <<"Evercore">>>>,
     <<<<"canaccord">>, <<"Canaccord", "Genuity">>>> >>

\* normalizeCompanyName returning the last table entry whose key matches
normalizeCompanyName_LastEntry(company) ==
  LET companyLower == toLowerCase(company)
      hits == { i \in 1..Len(institutions) : Includes(companyLower, institutions[i][1]) }
  IN  IF hits = {} THEN company
      ELSE institutions[CHOOSE i \in hits : \A j \in hits : i >= j][2]

\* normalizeCompanyName(company): the first table entry whose key the
\* lower-cased company includes, else the company itself
normalizeCompanyName(company) ==
  LET companyLower == toLowerCase(company)
      hits == { i \in 1..Len(institutions) : Includes(companyLower, institutions[i][1]) }
  IN  IF hits = {} THEN company
      ELSE institutions[CHOOSE i \in hits : \A j \in hits : i <= j][2]

(* ---------------------------------------------------------------------- *)
(* Generic sequence helpers                                                *)
(* ---------------------------------------------------------------------- *)

RECURSIVE Concat(_)
\* the concatenation of a sequence of sequences (push(...entries) in a loop)
Concat(ss) == IF ss = << >> THEN << >> ELSE Head(ss) \o Concat(Tail(ss))

RECURSIVE FirstKeys(_, _)
\* the distinct keys of a sequence of keys in order of first occurrence: the
\* iteration order of a JavaScript Map filled in one pass
FirstKeys(keys, seen) ==
  IF keys = << >> THEN << >>
  ELSE IF Head(keys) \in seen THEN FirstKeys(Tail(keys), seen)
  ELSE <<Head(keys)>> \o FirstKeys(Tail(keys), seen \cup {Head(keys)})

\* the groups of s, keyOf[i] being the key of s[i]: in Map iteration order,
\* each group in the order of s
GroupBy(s, keyOf) ==
  LET keys == FirstKeys(keyOf, {})
  IN  [k \in 1..Len(keys) |->
         LET members == SelectSeq([i \in 1..Len(s) |-> i], LAMBDA i : keyOf[i] = keys[k])
         IN  [m \in 1..Len(members) |-> s[members[m]]]]

(* ---------------------------------------------------------------------- *)
(* Transcripts, turns and their content                                    *)
(* ---------------------------------------------------------------------- *)

\* The spoken text of a turn is either an operator introduction, the
\* sentence "Our next question comes from <name> with <company>.", or any
\* other text, given by its words.
Introduction(name, company) == [kind |-> "intro", name |-> name, company |-> company, words |-> << >>]

Said(words) == [kind |-> "said", name |-> << >>, company |-> << >>, words |-> words]

\* the content of a segment that has no content property
UndefinedContent == [kind |-> "undefined", name |-> << >>, company |-> << >>, words |-> << >>]

MikeNg == <<"Mike", "Ng">>

PaddedMikeNg == <<"", "Mike", "Ng">>

MichaelNg == <<"Michael", "Ng">>

JaneDoe == <<"Jane", "Doe">>

AQuestion == Said(<<"What", "is", "your", "growth", "outlook?">>)

AStatement == Said(<<"We", "expect", "recovery", "next", "quarter.">>)

\* the operator turn that introduces name with company
OperatorTurn(name, company) ==
  [speaker |-> <<"Operator">>, title |-> <<"Operator">>,
   content |-> Introduction(name, company)]

\* a turn of an analyst who asks a question
AnalystTurn(speaker, title) == [speaker |-> speaker, title |-> title, content |-> AQuestion]

\* an element of a JSON array that has no title property
NoTitleElement == [speaker |-> MichaelNg, title |-> Undefined, content |-> AQuestion]

\* the elements the model draws the array of a JSON transcript from
JsonElements ==
  { OperatorTurn(MichaelNg, <<"Goldman">>),
    OperatorTurn(MikeNg, <<"Barclays">>),
    AnalystTurn(MichaelNg, <<"Analyst">>),
    AnalystTurn(PaddedMikeNg, <<"Morgan", "Stanley", "Analyst">>),
    NoTitleElement }

\* a paragraph "Name (Title): text" of a plain-text transcript
Paragraph(turn) ==
  [para |-> "turn", speaker |-> turn.speaker, title |-> turn.title, content |-> turn.content]

\* a paragraph of a plain-text transcript that is not "Name (Title): text"
Narration == [para |-> "narration", speaker |-> << >>, title |-> << >>, content |-> AStatement]

\* the paragraphs the model draws a plain-text transcript from
TextParagraphs ==
  { Paragraph(AnalystTurn(MichaelNg, <<"Analyst">>)),
    Paragraph(AnalystTurn(JaneDoe, <<"Equity", "Research", "Analyst">>)),
    Paragraph([speaker |-> <<"John", "Roe">>, title |-> <<"CEO">>, content |-> AStatement]),
    Narration }

Symbols == <<"MSFT", "AAPL">>

RECURSIVE SeqsOfLen(_, _)
SeqsOfLen(S, n) ==
  IF n = 0 THEN {<< >>}
  ELSE {<<x>> \o r : x \in S, r \in SeqsOfLen(S, n - 1)}

\* transcript.content with n turns/paragraphs: a JSON string holding an array,
\* a plain-text blob, or (n = 0) a JSON string holding an object
ContentsOfSize(n) ==
  [kind : {"json_array"}, items : SeqsOfLen(JsonElements, n)]
  \cup [kind : {"text"}, items : SeqsOfLen(TextParagraphs, n)]
  \cup (IF n = 0 THEN {[kind |-> "json_object", items |-> << >>]} ELSE {})

\* the transcript stored under id, as storage.getTranscript returns it
Transcript(id, symbol, content) ==
  [id |-> id, symbol |-> symbol,
   quarter |-> IF id % 2 = 1 THEN "Q1" ELSE "Q2",
   year |-> 2023 + id,
   title |-> <<symbol, "call", ToString(id)>>,
   content |-> content]

RECURSIVE Requests(_, _, _)
\* the transcript lists of a request: n more transcripts, ids from id on,
\* with at most budget turns in total.  Symbols are interchangeable, so the
\* first transcript is given the first symbol.
Requests(n, id, budget) ==
  {<< >>} \cup
  (IF n = 0 THEN {}
   ELSE UNION { { <<Transcript(id, sym, c)>> \o rest :
                    sym \in (IF id = 1 THEN {Symbols[1]}
                             ELSE {Symbols[i] : i \in 1..Len(Symbols)}),
                    c \in ContentsOfSize(k),
                    rest \in Requests(n - 1, id + 1, budget - k) } :
                k \in 0..budget })

(* ---------------------------------------------------------------------- *)
(* Segmentation                                                            *)
(* ---------------------------------------------------------------------- *)

\* whether "for (const segment of segments)" can iterate: JSON.parse of a
\* JSON object gives a value that is not iterable, and the loop throws
Iterable(content) == content.kind # "json_object"

\* the segments both extractors derive from transcript.content
ParseSegments(content) ==
  IF content.kind \in {"text", "bracketed_text"}
    THEN LET matched == SelectSeq(content.items, LAMBDA p : p.para = "turn")
         IN  [i \in 1..Len(matched) |->
                [speaker |-> matched[i].speaker, title |-> matched[i].title,
                 content |-> matched[i].content]]
    ELSE content.items

\* the text of a turn's content, as words
ContentWords(content) ==
  IF content.kind = "intro"
    THEN <<"Our", "next", "question", "comes", "from">> \o content.name
         \o <<"with">> \o content.company \o <<".">>
    ELSE content.words

(* ---------------------------------------------------------------------- *)
(* extractOperatorAnalystInfo                                              *)
(* ---------------------------------------------------------------------- *)

RECURSIVE RemovePhrase(_, _)
\* s.replace(/\b(phrase)\b/g, ''): the words of the phrase go, the blanks
\* around them stay
RemovePhrase(s, phrase) ==
  IF Len(s) < Len(phrase) THEN s
  ELSE IF SubSeq(toLowerCase(s), 1, Len(phrase)) = phrase
    THEN <<"">> \o RemovePhrase(SubSeq(s, Len(phrase) + 1, Len(s)), phrase)
    ELSE <<Head(s)>> \o RemovePhrase(Tail(s), phrase)

\* analystName.replace(/^(the line of|line of)\s+/gi, '').trim()
CleanAnalystName(raw) ==
  LET n == Trim(raw)
      l == toLowerCase(n)
  IN  IF Len(n) > 3 /\ SubSeq(l, 1, 3) = <<"the", "line", "of">>
        THEN Trim(SubSeq(n, 4, Len(n)))
      ELSE IF Len(n) > 2 /\ SubSeq(l, 1, 2) = <<"line", "of">>
        THEN Trim(SubSeq(n, 3, Len(n)))
      ELSE n

\* company.replace(/\b(please go ahead|go ahead|your question)\b/gi, '').trim()
\* and the removal of one trailing '.', ',' or ';'
CleanCompany(raw) ==
  LET a == RemovePhrase(Trim(raw), <<"please", "go", "ahead">>)
      b == RemovePhrase(a, <<"go", "ahead">>)
      c == Trim(RemovePhrase(b, <<"your", "question">>))
  IN  IF c # << >> /\ c[Len(c)] \in {".", ",", ";"}
        THEN Trim(SubSeq(c, 1, Len(c) - 1))
        ELSE c

\* The matches (match[1], match[2]) the four patterns of
\* extractOperatorAnalystInfo find in a content, pattern by pattern.  In
\* "Our next question comes from N with C." pattern 1 captures (N, C),
\* pattern 2 ("next question comes", "N with C"), pattern 3 nothing (no
\* comma) and pattern 4 ("Our next question comes", "N with C"); other
\* text of the model has no "with", "from", "at" or comma and matches nothing.
PatternMatches(content) ==
  IF content.kind = "intro"
    THEN LET tail == content.name \o <<"with">> \o content.company
         IN  << [name |-> content.name, company |-> content.company],
                [name |-> <<"next", "question", "comes">>, company |-> tail],
                [name |-> <<"Our", "next", "question", "comes">>, company |-> tail] >>
    ELSE << >>

\* MapSet keeping the value a key already has
MapSet_KeepsFirst(map, key, value) ==
  [k \in DOMAIN map \cup {key} |-> IF k \in DOMAIN map THEN map[k] ELSE value]

\* Map.prototype.set
MapSet(map, key, value) ==
  [k \in DOMAIN map \cup {key} |-> IF k = key THEN value ELSE map[k]]

RECURSIVE SetMatches(_, _)
\* the loop body of extractOperatorAnalystInfo over the matches of one segment
SetMatches(map, matches) ==
  IF matches = << >> THEN map
  ELSE LET analystName == CleanAnalystName(Head(matches).name)
           company == CleanCompany(Head(matches).company)
       IN  SetMatches(IF StrLength(analystName) > 0 /\ StrLength(company) > 0
                        THEN MapSet(map, analystName, company)
                        ELSE map,
                      Tail(matches))

\* segment.speaker?.toLowerCase().includes('operator')
IsOperatorSegment(segment) ==
  /\ segment.speaker # Undefined
  /\ Includes(toLowerCase(segment.speaker), <<"operator">>)

RECURSIVE ScanSegments(_, _)
ScanSegments(map, segments) ==
  IF segments = << >> THEN map
  ELSE ScanSegments(
         IF IsOperatorSegment(Head(segments))
           THEN SetMatches(map,
                  IF Head(segments).content = UndefinedContent THEN << >>
                  ELSE PatternMatches(Head(segments).content))
           ELSE map,
         Tail(segments))

EmptyMap == [k \in {} |-> << >>]

\* extractOperatorAnalystInfo(transcript), for iterable segments
extractOperatorAnalystInfo(transcript) ==
  ScanSegments(EmptyMap, ParseSegments(transcript.content))

\* "for (const [analystName, info] of operatorInfo) global.set(analystName, info)"
MergeInto(global, operatorInfo) ==
  [k \in DOMAIN global \cup DOMAIN operatorInfo |->
     IF k \in DOMAIN operatorInfo THEN operatorInfo[k] ELSE global[k]]

(* ---------------------------------------------------------------------- *)
(* extractAnalystQuestionsFromSingleTranscript                             *)
(* ---------------------------------------------------------------------- *)

\* the isAnalyst test on speakerTitle
isAnalyst(speakerTitle) ==
  LET t == toLowerCase(speakerTitle)
  IN  /\ \/ Includes(t, <<"analyst">>)
         \/ Includes(t, <<"research">>)
         \/ Includes(t, <<"equity">>)
      /\ ~Includes(t, <<"operator">>)
      /\ ~Includes(t, <<"ceo">>)
      /\ ~Includes(t, <<"cfo">>)
      /\ ~Includes(t, <<"investor", "relations">>)

\* the isAnalyst test of extractAnalystQuestions (one transcript), made on
\* the segments that have a speaker, a title and a content
isAnalystOfOneTranscript(speakerTitle) ==
  LET t == toLowerCase(speakerTitle)
  IN  /\ speakerTitle # << >>
      /\ \/ Includes(t, <<"analyst">>)
         \/ Includes(t, <<"research">>)
         \/ Includes(t, <<"equity">>)
      /\ ~Includes(t, <<"operator">>)
      /\ ~Includes(t, <<"ceo">>)
      /\ ~Includes(t, <<"cfo">>)
      /\ ~Includes(t, <<"investor", "relations">>)

\* the isAnalyst test of the client library's extractAnalystQuestions
isAnalystOfClient(speakerTitle) ==
  LET t == toLowerCase(speakerTitle)
  IN  \/ Includes(t, <<"analyst">>)
      \/ Includes(t, <<"research">>)
      \/ Includes(t, <<"equity">>)

\* the words of the vocabulary that hold a question mark
QuestionMarked == {"?", "outlook?", "margins?"}

\* <<word, its letters>> of the words of the vocabulary that end in a comma or
\* a full stop: \b lies between the letters and the punctuation
Punctuated == { <<"how,", "how">>, <<"update.", "update">>, <<"quarter.", "quarter">>,
                <<"works.", "works">> }

\* the letters a word starts with, up to the first \b inside it
Letters(w) ==
  IF \E p \in Punctuated : p[1] = w
    THEN (CHOOSE p \in Punctuated : p[1] = w)[2]
    ELSE w

\* content.includes('?') alone
hasQuestion_MarkOnly(content) ==
  \E i \in 1..Len(ContentWords(content)) : ContentWords(content)[i] \in QuestionMarked

\* content.includes('?') || /\b(what|how|...|is there)\b/i.test(content)
hasQuestion(content) ==
  LET w == toLowerCase(ContentWords(content))
  IN  \/ \E i \in 1..Len(w) : w[i] \in QuestionMarked
      \/ \E i \in 1..Len(w) : Letters(w[i]) \in {"what", "how", "when", "where", "why"}
      \/ \E i \in 1..(Len(w) - 1) :
            <<w[i], Letters(w[i + 1])>> \in { <<"can", "you">>, <<"could", "you">>,
                                              <<"would", "you">>, <<"do", "you">>,
                                              <<"are", "you">>, <<"will", "you">>,
                                              <<"is", "there">> }

\* index of the first word of t from position from on whose lower-case form is in ws, or 0
FirstIndex(t, from, ws) ==
  LET hits == { i \in from..Len(t) : LowerWord(t[i]) \in ws }
  IN  IF hits = {} THEN 0 ELSE CHOOSE i \in hits : \A j \in hits : i <= j

\* match[1] of /(?:with|from|at)\s+([A-Za-z\s&\.\-]+?)(?:\s|$|,|\.|;)/i looked
\* for from word position from on: the word after the preposition
AfterPreposition(title, from) ==
  LET hits == { i \in from..(Len(title) - 1) :
                  LowerWord(title[i]) \in {"with", "from", "at"} /\ title[i + 1] # "" }
  IN  IF hits = {} THEN << >>
      ELSE << <<title[(CHOOSE i \in hits : \A j \in hits : i <= j) + 1]>> >>

\* match[1] of /([A-Za-z\s&\.\-]+?)\s*(?:w1|w2|...)/i: the words before the
\* first of the given words that has something in front of it
Before(title, ws) ==
  LET j == FirstIndex(title, 2, ws)
  IN  IF j = 0 THEN << >> ELSE << SubSeq(title, 1, j - 1) >>

\* the captures of the seven patterns of extractCompany that match, in order
TitleCaptures(title) ==
  LET a == FirstIndex(title, 1, {"analyst"})
  IN  AfterPreposition(title, 1)
      \o Before(title, {"analyst", "research", "equity"})
      \o (IF a = 0 THEN << >> ELSE AfterPreposition(title, a + 1))
      \o Before(title, {"analyst"}) \o Before(title, {"analyst"})
      \o Before(title, {"analyst"}) \o Before(title, {"analyst"})

RECURSIVE RemoveWords(_, _)
\* s.replace(/\b(w1|w2|...)\b/gi, '')
RemoveWords(s, ws) ==
  IF s = << >> THEN << >>
  ELSE <<IF LowerWord(Head(s)) \in ws THEN "" ELSE Head(s)>> \o RemoveWords(Tail(s), ws)

RECURSIVE FirstCompany(_)
FirstCompany(captures) ==
  IF captures = << >> THEN Unknown
  ELSE LET company == Trim(RemoveWords(Trim(Head(captures)),
                                       {"analyst", "research", "equity"}))
       IN  IF StrLength(company) > 2 /\ ~Includes(toLowerCase(company), <<"unknown">>)
             THEN normalizeCompanyName(company)
             ELSE FirstCompany(Tail(captures))

\* extractCompany(title) of extractAnalystQuestionsFromSingleTranscript
extractCompany(title) == FirstCompany(TitleCaptures(title))

\* whether processing the segment throws a TypeError: speakerTitle.toLowerCase(),
\* content.includes and speakerName.trim() on a missing property
SegmentThrows(segment) ==
  \/ segment.title = Undefined
  \/ /\ isAnalyst(segment.title)
     /\ \/ segment.content = UndefinedContent
        \/ hasQuestion(segment.content) /\ segment.speaker = Undefined

\* the record questions.push(...) creates for a qualifying segment; ref is the
\* identity of the object, the position at which it enters allQuestions
NewQuestion(transcript, segment, operatorAnalystInfo, ref) ==
  [ref |-> ref,
   analystName |-> Trim(segment.speaker),
   analystTitle |-> Trim(segment.title),
   analystCompany |->
     IF segment.speaker \in DOMAIN operatorAnalystInfo
       THEN normalizeCompanyName(operatorAnalystInfo[segment.speaker])
       ELSE extractCompany(segment.title),
   question |-> Trim(ContentWords(segment.content)),
   transcriptId |-> transcript.id,
   symbol |-> transcript.symbol,
   quarter |-> transcript.quarter,
   year |-> transcript.year,
   transcriptTitle |-> transcript.title]

RECURSIVE QuestionsOf(_, _, _, _)
QuestionsOf(transcript, segments, operatorAnalystInfo, nextRef) ==
  IF segments = << >> THEN << >>
  ELSE IF isAnalyst(Head(segments).title) /\ hasQuestion(Head(segments).content)
    THEN <<NewQuestion(transcript, Head(segments), operatorAnalystInfo, nextRef)>>
         \o QuestionsOf(transcript, Tail(segments), operatorAnalystInfo, nextRef + 1)
    ELSE QuestionsOf(transcript, Tail(segments), operatorAnalystInfo, nextRef)

\* whether extractAnalystQuestionsFromSingleTranscript(transcript, ...) throws
SingleTranscriptThrows(transcript) ==
  \/ ~Iterable(transcript.content)
  \/ \E i \in 1..Len(ParseSegments(transcript.content)) :
        SegmentThrows(ParseSegments(transcript.content)[i])

\* extractAnalystQuestionsFromSingleTranscript(transcript, operatorAnalystInfo)
\* when it returns; nextRef numbers the objects it creates
extractAnalystQuestionsFromSingleTranscript(transcript, operatorAnalystInfo, nextRef) ==
  QuestionsOf(transcript, ParseSegments(transcript.content), operatorAnalystInfo, nextRef)

(* ---------------------------------------------------------------------- *)
(* applyCompanyWideAnalystConsolidation                                    *)
(* ---------------------------------------------------------------------- *)

\* the body of the phase-1 loop for one question
AssignOperatorCompany(question, operatorAnalystInfo) ==
  LET analystName == Trim(question.analystName)
  IN  IF analystName \in DOMAIN operatorAnalystInfo
        THEN [question EXCEPT
                !.analystCompany = normalizeCompanyName(operatorAnalystInfo[analystName])]
        ELSE question

\* phase 1: transcriptProcessedQuestions
TranscriptProcessed(questions, operatorAnalystInfo) ==
  LET transcriptGroups == GroupBy(questions, [i \in 1..Len(questions) |-> questions[i].transcriptId])
      ordered == Concat(transcriptGroups)
  IN  [i \in 1..Len(ordered) |-> AssignOperatorCompany(ordered[i], operatorAnalystInfo)]

\* KnownCompany without the update inside the grouping loop: only the entry
\* that creates the group can set the known company
KnownCompany_FirstEntryOnly(entries) ==
  IF entries[1].analystCompany # Unknown THEN entries[1].analystCompany ELSE << >>

\* KnownCompany keeping the company of the first entry that is not 'Unknown'
KnownCompany_FirstKnown(entries) ==
  LET known == { i \in 1..Len(entries) : entries[i].analystCompany # Unknown }
  IN  IF known = {} THEN << >>
      ELSE entries[CHOOSE i \in known : \A j \in known : i <= j].analystCompany

\* analystGroup.knownCompany after the grouping loop: the company of the last
\* entry that is not 'Unknown', '' when there is none
KnownCompany(entries) ==
  LET known == { i \in 1..Len(entries) : entries[i].analystCompany # Unknown }
  IN  IF known = {} THEN << >>
      ELSE entries[CHOOSE i \in known : \A j \in known : j <= i].analystCompany

\* ConsolidateEntry writing the preferred name to analystTitle as well
ConsolidateEntry_WritesTitle(entry, preferredName, knownCompany) ==
  [entry EXCEPT
     !.analystName = preferredName,
     !.analystTitle = preferredName,
     !.analystCompany = IF StrLength(knownCompany) > 0 THEN knownCompany ELSE @]

\* ConsolidateEntry without the company update
ConsolidateEntry_KeepsCompany(entry, preferredName, knownCompany) ==
  [entry EXCEPT !.analystName = preferredName]

\* the update of one entry of an analyst group
ConsolidateEntry(entry, preferredName, knownCompany) ==
  [entry EXCEPT
     !.analystName = preferredName,
     !.analystCompany = IF StrLength(knownCompany) > 0 THEN knownCompany ELSE @]

\* ConsolidateGroup pushing the entries of a group only inside the branch
\* taken when the group has a known company
ConsolidateGroup_KnownOnly(entries) ==
  LET normalizedName == normalizeAnalystName(Trim(entries[1].analystName))
      known == { i \in 1..Len(entries) : entries[i].analystCompany # Unknown }
  IN  IF known = {} THEN << >>
      ELSE [i \in 1..Len(entries) |->
              [entries[i] EXCEPT
                 !.analystName = normalizedName,
                 !.analystCompany =
                    entries[CHOOSE k \in known : \A m \in known : m <= k].analystCompany]]

\* the consolidation of one analyst group
ConsolidateGroup(entries) ==
  LET normalizedName == normalizeAnalystName(Trim(entries[1].analystName))
      knownCompany == KnownCompany(entries)
  IN  [i \in 1..Len(entries) |-> ConsolidateEntry(entries[i], normalizedName, knownCompany)]

\* AnalystNameGroups keyed by the display name instead of the normalized name
AnalystNameGroups_ByDisplayName(symbolQuestions) ==
  GroupBy(symbolQuestions,
          [i \in 1..Len(symbolQuestions) |-> Trim(symbolQuestions[i].analystName)])

\* the analyst groups of one symbol: by normalized name, in Map order
AnalystNameGroups(symbolQuestions) ==
  GroupBy(symbolQuestions,
          [i \in 1..Len(symbolQuestions) |->
             normalizeAnalystName(Trim(symbolQuestions[i].analystName))])

\* the consolidation of the questions of one symbol
ConsolidateSymbol(symbolQuestions) ==
  LET groups == AnalystNameGroups(symbolQuestions)
  IN  Concat([g \in 1..Len(groups) |-> ConsolidateGroup(groups[g])])

\* SymbolGroups without the partition by symbol: one group for all questions
SymbolGroups_Unpartitioned(questions) ==
  IF questions = << >> THEN << >> ELSE <<questions>>

\* the grouping of the phase-1 result by stock symbol
SymbolGroups(questions) == GroupBy(questions, [i \in 1..Len(questions) |-> questions[i].symbol])

\* phase 2: finalConsolidatedQuestions
FinalConsolidated(transcriptProcessedQuestions) ==
  LET symbolGroups == SymbolGroups(transcriptProcessedQuestions)
  IN  Concat([g \in 1..Len(symbolGroups) |-> ConsolidateSymbol(symbolGroups[g])])

\* applyCompanyWideAnalystConsolidation(questions, operatorAnalystInfo)
applyCompanyWideAnalystConsolidation(questions, operatorAnalystInfo) ==
  FinalConsolidated(TranscriptProcessed(questions, operatorAnalystInfo))

(* ---------------------------------------------------------------------- *)
(* extractAnalystQuestionsFromMultipleTranscripts as a function            *)
(* ---------------------------------------------------------------------- *)

RECURSIVE GlobalInfo(_, _)
\* globalOperatorAnalystInfo after the first pass over ts
GlobalInfo(global, ts) ==
  IF ts = << >> THEN global
  ELSE GlobalInfo(MergeInto(global, extractOperatorAnalystInfo(Head(ts))), Tail(ts))

RECURSIVE CollectQuestions(_, _, _)
\* allQuestions after the second pass over ts
CollectQuestions(collected, ts, global) ==
  IF ts = << >> THEN collected
  ELSE CollectQuestions(
         collected \o extractAnalystQuestionsFromSingleTranscript(
                        Head(ts), global, Len(collected) + 1),
         Tail(ts), global)

\* whether extractAnalystQuestionsFromMultipleTranscripts(ts) throws
MultipleTranscriptsThrows(ts) ==
  \E i \in 1..Len(ts) : SingleTranscriptThrows(ts[i])

\* the list extractAnalystQuestionsFromMultipleTranscripts(ts) returns
extractAnalystQuestionsFromMultipleTranscripts(ts) ==
  LET global == GlobalInfo(EmptyMap, ts)
  IN  applyCompanyWideAnalystConsolidation(CollectQuestions(<< >>, ts, global), global)

(* ---------------------------------------------------------------------- *)
(* extractAnalystQuestions (one transcript): the operator first pass       *)
(* ---------------------------------------------------------------------- *)

\* The matches the ten patterns of extractAnalystQuestions find in a content,
\* pattern by pattern.  In "Our next question comes from N with C." patterns
\* 1, 2, 6 and 7 capture (N, C), patterns 3 and 10 ("Our next question
\* comes", "N with C"), pattern 8 ("next question comes", "N with C") and
\* patterns 4, 5 and 9 nothing.
PatternMatchesOfTen(content) ==
  IF content.kind = "intro"
    THEN LET tail == content.name \o <<"with">> \o content.company
             named == [name |-> content.name, company |-> content.company]
             our == [name |-> <<"Our", "next", "question", "comes">>, company |-> tail]
         IN  << named, named, our, named, named,
                [name |-> <<"next", "question", "comes">>, company |-> tail], our >>
    ELSE << >>

\* segment.speaker && segment.title && segment.content &&
\* segment.title.toLowerCase().includes('operator')
IsOperatorTitled(segment) ==
  /\ StrLength(OrEmpty(segment.speaker)) > 0
  /\ StrLength(OrEmpty(segment.title)) > 0
  /\ StrLength(ContentWords(segment.content)) > 0
  /\ Includes(toLowerCase(segment.title), <<"operator">>)

RECURSIVE ScanTitledSegments(_, _)
\* the first loop of extractAnalystQuestions over the segments
ScanTitledSegments(map, segments) ==
  IF segments = << >> THEN map
  ELSE ScanTitledSegments(
         IF IsOperatorTitled(Head(segments))
           THEN SetMatches(map, PatternMatchesOfTen(Head(segments).content))
           ELSE map,
         Tail(segments))

\* operatorAnalystInfo of extractAnalystQuestions(transcript) after its first pass
OperatorInfoOfOneTranscript(transcript) ==
  ScanTitledSegments(EmptyMap, ParseSegments(transcript.content))

(* ---------------------------------------------------------------------- *)
(* extractPreparedStatements                                               *)
(* ---------------------------------------------------------------------- *)

\* the roster executiveTitles, each entry lower-cased as the test lower-cases it
executiveTitles ==
  { <<"ceo">>, <<"cfo">>, <<"coo">>, <<"cto">>, <<"cro">>, <<"cmo">>,
    <<"chief", "executive", "officer">>, <<"chief", "financial", "officer">>,
    <<"chief", "operating", "officer">>, <<"chief", "technology", "officer">>,
    <<"president">>, <<"vice", "president">>, <<"vp">>,
    <<"senior", "vice", "president">>, <<"svp">>,
    <<"executive", "vice", "president">>, <<"evp">>,
    <<"vice-chairman">>, <<"vice", "chairman">>, <<"chairman">>,
    <<"founder">>, <<"co-founder">>, <<"managing", "director">>, <<"director">> }

\* the array speakers of extractPreparedStatements: the parsed JSON array, or
\* the trimmed pieces of the paragraphs "Name (Title): text"; a JSON object
\* makes the logging of the parsed value throw inside the inner try, a text
\* that starts with a bracket makes JSON.parse throw there, a content that is
\* an array has no substring method: the function then returns no statement
PreparedSpeakers(content) ==
  IF content.kind \in {"json_object", "array", "bracketed_text"} THEN << >>
  ELSE IF content.kind = "text"
    THEN LET matched == SelectSeq(content.items, LAMBDA p : p.para = "turn")
         IN  [i \in 1..Len(matched) |->
                [speaker |-> Trim(matched[i].speaker), title |-> Trim(matched[i].title),
                 content |-> Said(Trim(ContentWords(matched[i].content)))]]
    ELSE content.items

\* qaStartIndex (counted from 0) after the search loop and the default
qaStartIndex(speakers) ==
  LET title(i) == toLowerCase(OrEmpty(speakers[i + 1].title))
      content(i) == toLowerCase(ContentWords(speakers[i + 1].content))
      starts == { i \in 0..(Len(speakers) - 1) :
                    \/ Includes(title(i), <<"analyst">>)
                    \/ /\ Includes(title(i), <<"operator">>)
                       /\ i > 0
                       /\ \/ Includes(content(i), <<"question">>)
                          \/ Includes(content(i), <<"next", "question">>)
                          \/ Includes(content(i), <<"first", "question">>)
                          \/ Includes(content(i), <<"our", "next", "caller">>) }
  IN  IF starts = {} THEN Len(speakers)
      ELSE CHOOSE i \in starts : \A j \in starts : i <= j

\* the condition under which a speaker before the Q&A section is pushed
IsPreparedStatement(speaker) ==
  LET title == toLowerCase(OrEmpty(speaker.title))
      isExecutive == \E execTitle \in executiveTitles : Includes(title, execTitle)
      titleHasAnalyst == Includes(title, <<"analyst">>)
      isOperator == Includes(title, <<"operator">>)
      isInvestorRelations ==
        \/ Includes(title, <<"investor", "relations">>)
        \/ Includes(title, <<"head", "of", "investor", "relations">>)
        \/ Includes(title, <<"director", "of", "investor", "relations">>)
        \/ Includes(title, <<"vp", "investor", "relations">>)
        \/ Includes(title, <<"vice", "president", "investor", "relations">>)
  IN  /\ isExecutive /\ ~titleHasAnalyst /\ ~isOperator /\ ~isInvestorRelations
      /\ StrLength(ContentWords(speaker.content)) > 0
      /\ StrLength(Trim(ContentWords(speaker.content))) > 100

\* the record statements.push(...) creates
NewStatement(transcript, speaker) ==
  [speakerName |-> IF StrLength(OrEmpty(speaker.speaker)) = 0 THEN Unknown ELSE speaker.speaker,
   speakerTitle |-> OrEmpty(speaker.title),
   statement |-> Trim(ContentWords(speaker.content)),
   transcriptId |-> transcript.id,
   symbol |-> transcript.symbol,
   quarter |-> transcript.quarter,
   year |-> transcript.year,
   transcriptTitle |-> transcript.title]

\* extractPreparedStatements(transcript): the statements it returns, and the
\* qaStartIndex it worked with
extractPreparedStatements(transcript) ==
  LET speakers == PreparedSpeakers(transcript.content)
      preparedStatementSpeakers ==
        SelectSeq(SubSeq(speakers, 1, qaStartIndex(speakers)), IsPreparedStatement)
  IN  [qaStartIndex |-> qaStartIndex(speakers),
       statements |-> [i \in 1..Len(preparedStatementSpeakers) |->
                         NewStatement(transcript, preparedStatementSpeakers[i])]]

(* ---------------------------------------------------------------------- *)
(* GoogleDriveService: the mapped folder name of an analyst                 *)
(* ---------------------------------------------------------------------- *)

\* <<short form, full form>>: nameVariations of parseAnalystInfo
shortForms ==
  { <<"mike", "Michael">>, <<"jim", "James">>, <<"bob", "Robert">>, <<"bill", "William">>,
    <<"tom", "Thomas">>, <<"dan", "Daniel">>, <<"dave", "David">>,
    <<"chris", "Christopher">>, <<"nick", "Nicholas">>, <<"alex", "Alexander">>,
    <<"steve", "Steven">>, <<"ben", "Benjamin">>, <<"matt", "Matthew">>,
    <<"tony", "Anthony">>, <<"joe", "Joseph">>, <<"sam", "Samuel">>, <<"andy", "Andrew">>,
    <<"pat", "Patrick">>, <<"pete", "Peter">>, <<"ed", "Edward">>, <<"ted", "Theodore">>,
    <<"frank", "Francis">>, <<"greg", "Gregory">>, <<"jeff", "Jeffrey">>,
    <<"ken", "Kenneth">>, <<"brad", "Bradley">>, <<"marc", "Mark">>, <<"jon", "Jonathan">>,
    <<"tim", "Timothy">> }

\* institutionMap of standardizeInstitutionName, keys lower-cased, in order
institutionMap ==
  << <<<<"goldman", "sachs">>, "GoldmanSachs">>,
     <<<<"goldman", "sachs", "&", "co">>, "GoldmanSachs">>,
     <<<<"goldman", "sachs", "group">>, "GoldmanSachs">>,
     <<<<"jpmorgan">>, "JPMorgan">>,
     <<<<"jpmorgan", "chase">>, "JPMorgan">>,
     <<<<"jp", "morgan">>, "JPMorgan">>,
     <<<<"morgan", "stanley">>, "MorganStanley">>,
     <<<<"bank", "of", "america">>, "BankOfAmerica">>,
     <<<<"bofa">>, "BankOfAmerica">>,
     <<<<"wells", "fargo">>, "WellsFargo">>,
     <<<<"citigroup">>, "Citigroup">>,
     <<<<"citi">>, "Citigroup">>,
     <<<<"ubs">>, "UBS">>,
     <<<<"credit", "suisse">>, "CreditSuisse">>,
     <<<<"deutsche", "bank">>, "DeutscheBank">>,
     <<<<"barclays">>, "Barclays">>,
     <<<<"evercore">>, "Evercore">>,
     <<<<"cowen">>, "Cowen">>,
     <<<<"td", "cowen">>, "Cowen">>,
     <<<<"wedbush">>, "Wedbush">>,
     <<<<"oppenheimer">>, "Oppenheimer">>,
     <<<<"melius">>, "Melius">>,
     <<<<"arete", "research">>, "AreteResearch">> >>

RECURSIVE Squeeze(_)
\* s.replace(/[^a-zA-Z0-9]/g, ''): the words of s written without the blanks
Squeeze(s) == IF s = << >> THEN "" ELSE Head(s) \o Squeeze(Tail(s))

\* t.substring(0, 15), for the strings of the vocabulary longer than that
First15(t) ==
  IF Len(t) <= 15 THEN t
  ELSE CASE t = "AcmeCapitalPartners" -> "AcmeCapitalPart"

\* standardizeInstitutionName(company)
standardizeInstitutionName(company) ==
  LET hits == { i \in 1..Len(institutionMap) :
                  Includes(toLowerCase(company), institutionMap[i][1]) }
  IN  IF hits # {} THEN institutionMap[CHOOSE i \in hits : \A j \in hits : i <= j][2]
      ELSE First15(Squeeze(company))

\* parseAnalystInfo(analystName, company)
parseAnalystInfo(analystName, company) ==
  LET nameParts == IF Trim(analystName) = << >> THEN <<"">> ELSE Trim(analystName)
      firstName == IF nameParts[1] = "" THEN "Unknown" ELSE nameParts[1]
      firstNameLower == IF LowerWord(firstName) = "mike." THEN "mike" ELSE LowerWord(firstName)
  IN  [firstName |-> IF \E p \in shortForms : p[1] = firstNameLower
                       THEN (CHOOSE p \in shortForms : p[1] = firstNameLower)[2]
                       ELSE firstName,
       lastName |-> IF Len(nameParts) > 1 THEN nameParts[Len(nameParts)] ELSE "Analyst",
       institution |-> standardizeInstitutionName(
                         IF company \in {Undefined, << >>} THEN Unknown ELSE company)]

\* mappedFolderName of uploadAnalystExcel(analystName, questions), where
\* company is questions[0]?.analystCompany
mappedFolderName(analystName, company) ==
  LET analystInfo == parseAnalystInfo(analystName, company)
  IN  analystInfo.firstName \o "_" \o analystInfo.lastName \o "_" \o analystInfo.institution

(* ---------------------------------------------------------------------- *)
(* GoogleDriveService: the Excel file of an analyst                         *)
(* ---------------------------------------------------------------------- *)

\* null, for a folder or file id
Null == 0

\* new Date().toISOString().split('T')[0]
Today == "2026-01-15"

\* quarterToNumber(quarter)
quarterToNumber(quarter) ==
  CASE quarter = "Q1" -> 1 [] quarter = "Q2" -> 2 [] quarter = "Q3" -> 3
    [] quarter = "Q4" -> 4 [] OTHER -> 1

RECURSIVE MostRecentFrom(_, _)
\* the forEach of getMostRecentQuarter, from the value recent on
MostRecentFrom(recent, questions) ==
  IF questions = << >> THEN recent
  ELSE LET q == Head(questions)
       IN  MostRecentFrom(
             IF \/ q.year > recent.year
                \/ /\ q.year = recent.year
                   /\ quarterToNumber(q.quarter) > quarterToNumber(recent.quarter)
               THEN [quarter |-> q.quarter, year |-> q.year]
               ELSE recent,
             Tail(questions))

\* getMostRecentQuarter(questions)
getMostRecentQuarter(questions) ==
  MostRecentFrom([quarter |-> "Q1", year |-> 2020], questions)

\* the four fields by which mergeQuestions recognises a duplicate
SameQuestion(a, b) ==
  /\ a.question = b.question /\ a.symbol = b.symbol
  /\ a.quarter = b.quarter /\ a.year = b.year

\* the comparator of the sort of mergeQuestions: negative when a goes first.
\* A date is today's or absent; b.quarter.localeCompare(a.quarter) orders "Q1"
\* to "Q4" as quarterToNumber does
CompareMerged(a, b) ==
  LET dateA == IF a.dateAdded = "" THEN "1900-01-01" ELSE a.dateAdded
      dateB == IF b.dateAdded = "" THEN "1900-01-01" ELSE b.dateAdded
  IN  IF dateA # dateB THEN (IF dateA = Today THEN -1 ELSE 1)
      ELSE IF a.year # b.year THEN b.year - a.year
      ELSE quarterToNumber(b.quarter) - quarterToNumber(a.quarter)

RECURSIVE SortMerged(_)
\* Array.prototype.sort with CompareMerged: a stable sort
SortMerged(list) ==
  IF list = << >> THEN << >>
  ELSE LET sorted == SortMerged(Tail(list))
           before == { i \in 1..Len(sorted) : CompareMerged(sorted[i], Head(list)) < 0 }
           n == IF before = {} THEN 0 ELSE CHOOSE i \in before : \A j \in before : j <= i
       IN  SubSeq(sorted, 1, n) \o <<Head(list)>> \o SubSeq(sorted, n + 1, Len(sorted))

\* mergeQuestions without the sort: the new questions stay behind the existing
mergeQuestions_Unsorted(existingQuestions, newQuestions) ==
  existingQuestions
  \o [i \in 1..Len(SelectSeq(newQuestions,
                      LAMBDA q : \A k \in 1..Len(existingQuestions) :
                                    ~SameQuestion(existingQuestions[k], q))) |->
        [SelectSeq(newQuestions,
                   LAMBDA q : \A k \in 1..Len(existingQuestions) :
                                 ~SameQuestion(existingQuestions[k], q))[i]
           EXCEPT !.dateAdded = Today]]

\* mergeQuestions(existingQuestions, newQuestions)
mergeQuestions(existingQuestions, newQuestions) ==
  LET added == SelectSeq(newQuestions,
                         LAMBDA q : \A k \in 1..Len(existingQuestions) :
                                       ~SameQuestion(existingQuestions[k], q))
  IN  SortMerged(existingQuestions
                 \o [i \in 1..Len(added) |-> [added[i] EXCEPT !.dateAdded = Today]])

\* the rows of the sheet written for allQuestions: 'Date Added' is
\* q.dateAdded || today
ExcelData(allQuestions) ==
  [i \in 1..Len(allQuestions) |->
     [Company |-> allQuestions[i].analystCompany,
      Question |-> allQuestions[i].question, StockSymbol |-> allQuestions[i].symbol,
      Quarter |-> allQuestions[i].quarter, Year |-> allQuestions[i].year,
      DateAdded |-> IF allQuestions[i].dateAdded = "" THEN Today
                    ELSE allQuestions[i].dateAdded]]

\* the questions downloadExistingQuestions makes of the rows of a sheet: the
\* date is not read back, rows without a question are dropped
QuestionsOfRows(jsonData) ==
  SelectSeq([i \in 1..Len(jsonData) |->
               [analystCompany |-> jsonData[i].Company,
                question |-> jsonData[i].Question, symbol |-> jsonData[i].StockSymbol,
                quarter |-> jsonData[i].Quarter, year |-> jsonData[i].Year,
                dateAdded |-> ""]],
            LAMBDA q : q.question # "")

\* getMostRecentFile(files): the first of the files with the latest quarter
getMostRecentFile(files) ==
  LET later(f, g) == \/ f.year > g.year
                     \/ /\ f.year = g.year
                        /\ quarterToNumber(f.quarter) > quarterToNumber(g.quarter)
  IN  files[CHOOSE i \in 1..Len(files) :
              /\ \A j \in 1..Len(files) : ~later(files[j], files[i])
              /\ \A j \in 1..(i - 1) : later(files[i], files[j])]

(* ---------------------------------------------------------------------- *)
(* Arguments of the functions called on their own                          *)
(* ---------------------------------------------------------------------- *)
MaxStatementTurns == 3

\* a text of exactly n characters (n >= 1): nine-letter words and a last word
StatementText(n) ==
  LET lastWords == <<"s", "st", "sta", "stat", "state", "statem", "stateme",
                     "statemen", "statement", "statement.">>
      q == (n - 1) \div 10
  IN  [i \in 1..q |-> "quarterly"] \o <<lastWords[n - 10 * q]>>

JohnRoe == <<"John", "Roe">>

\* the turns the transcripts given to extractPreparedStatements are made of
PreparedTurns ==
  { [speaker |-> JohnRoe, title |-> <<"CEO">>, content |-> Said(StatementText(101))],
    [speaker |-> JohnRoe, title |-> <<"CEO">>, content |-> Said(StatementText(80))],
    [speaker |-> JaneDoe, title |-> <<"Chief", "Financial", "Officer">>,
     content |-> Said(<<"">> \o StatementText(100) \o <<"">>)],
    [speaker |-> JaneDoe, title |-> <<"Director", "of", "Investor", "Relations">>,
     content |-> Said(StatementText(101))],
    [speaker |-> MichaelNg, title |-> <<"Director", "of", "Equity", "Research">>,
     content |-> Said(StatementText(101))],
    [speaker |-> JaneDoe, title |-> <<"Moderator">>, content |-> Said(StatementText(101))],
    [speaker |-> <<"Operator">>, title |-> <<"Operator">>,
     content |-> Said(<<"We", "will", "now", "take", "your", "questions">>)],
    [speaker |-> <<"Operator">>, title |-> <<"Operator">>,
     content |-> Said(<<"Good", "day", "and", "welcome">>)],
    AnalystTurn(MichaelNg, <<"Analyst">>) }

\* an element of a JSON array with a speaker only
SpeakerOnlyElement == [speaker |-> JohnRoe, title |-> Undefined, content |-> UndefinedContent]

\* the transcripts given to extractPreparedStatements
PreparedTranscripts ==
  { Transcript(1, Symbols[1], c) :
      c \in UNION { [kind : {"json_array"},
                     items : SeqsOfLen(PreparedTurns \cup {SpeakerOnlyElement}, n)]
                    \cup [kind : {"text"},
                          items : SeqsOfLen({Paragraph(t) : t \in PreparedTurns}
                                            \cup {Narration}, n)]
                    \cup {[kind |-> "json_object", items |-> << >>]} :
                    n \in 0..MaxStatementTurns } }

MaxOperatorTurns == 3

\* a turn that says what an operator says when introducing name with company
IntroductionBy(speaker, title, name, company) ==
  [speaker |-> speaker, title |-> title, content |-> Introduction(name, company)]

\* the turns the transcripts given to the operator passes are made of
OperatorInfoTurns ==
  { OperatorTurn(MichaelNg, <<"Goldman">>),
    OperatorTurn(MichaelNg, <<"Barclays">>),
    IntroductionBy(<<"Operator">>, << >>, JaneDoe, <<"Barclays">>),
    IntroductionBy(JaneDoe, <<"Operator">>, MikeNg, <<"Barclays">>),
    IntroductionBy(JohnRoe, <<"CEO">>, JaneDoe, <<"Goldman">>),
    [speaker |-> <<"Operator">>, title |-> <<"Operator">>,
     content |-> Said(<<"Good", "day", "and", "welcome">>)],
    AnalystTurn(MichaelNg, <<"Analyst">>) }

\* the JSON transcript with the given id and turns
JsonTranscript(id, turns) ==
  Transcript(id, Symbols[1], [kind |-> "json_array", items |-> turns])

\* the transcript lists given to the first pass: one or two transcripts
OperatorRequests ==
  UNION { { <<JsonTranscript(1, a)>> : a \in SeqsOfLen(OperatorInfoTurns, n) }
          \cup UNION { { <<JsonTranscript(1, a), JsonTranscript(2, b)>> :
                           a \in SeqsOfLen(OperatorInfoTurns, k),
                           b \in SeqsOfLen(OperatorInfoTurns, n - k) } : k \in 0..n } :
          n \in 0..MaxOperatorTurns }

\* the titles the analyst tests are called with
Titles ==
  { <<"Analyst">>, <<"Equity", "Research">>, <<"Goldman", "Sachs", "Analyst">>,
    <<"RESEARCH", "ANALYST">>, <<"Operator">>, <<"CEO">>,
    <<"Chief", "Financial", "Officer">>,
    <<"Director", "of", "Investor", "Relations">>,
    <<"Investor", "Relations", "Analyst">>, <<"Equity", "Research", "Operator">>,
    <<"Research", "Analyst", "and", "CFO">>, <<"CEO", "and", "Equity", "Analyst">> }

MaxQuestionTurns == 3

CanYouComment == Said(<<"Can", "you", "comment", "on", "margins">>)

ThankYou == Said(<<"Thank", "you", "for", "the", "update.">>)

\* the turns the model draws the transcripts of the question loop from
QuestionTurns ==
  { [speaker |-> JaneDoe, title |-> <<"Analyst">>, content |-> CanYouComment],
    [speaker |-> MichaelNg, title |-> <<"Equity", "Research">>, content |-> ThankYou],
    [speaker |-> MikeNg, title |-> <<"Goldman", "Sachs", "Analyst">>,
     content |-> Said(<<"And", "the", "margins?">>)],
    [speaker |-> MichaelNg, title |-> <<"Analyst">>,
     content |-> Said(<<"How,", "then,", "about", "margins">>)],
    [speaker |-> JaneDoe, title |-> <<"Analyst">>,
     content |-> Said(<<"Somehow", "it", "works.">>)],
    [speaker |-> JohnRoe, title |-> <<"CEO">>, content |-> CanYouComment],
    OperatorTurn(JaneDoe, <<"Barclays">>) }

\* the transcripts extractAnalystQuestionsFromSingleTranscript is called with
QuestionTranscripts ==
  { JsonTranscript(1, turns) :
      turns \in UNION { SeqsOfLen(QuestionTurns, n) : n \in 0..MaxQuestionTurns } }

\* the operatorAnalystInfo it is called with
KnownIntroductions == MapSet(EmptyMap, JaneDoe, <<"Barclays">>)

\* the company strings normalizeCompanyName is called with
Companies ==
  { <<"Goldman">>, <<"Goldman", "Sachs">>, <<"Morgan", "Stanley">>,
    <<"JP", "Morgan", "Stanley">>, <<"Barclays", "and", "Goldman">>,
    <<"Citibank">>, <<"Scotiabank">>, <<"BARCLAYS">>, <<"", "Barclays", "">>,
    <<"Hubspot", "Partners">>, <<"Acme", "Partners">>, Unknown, << >> }

\* the display names normalizeAnalystName is called with
DisplayNames ==
  { MikeNg, MichaelNg, PaddedMikeNg, <<"MIKE", "NG">>, <<"mike", "ng">>,
    <<"Mike", "J.", "Ng">>, <<"Michael", "", "Ng", "">>, <<"Mike">>, <<"Ng", "Mike">>,
    JaneDoe, <<"Jane", "Mike", "Doe">>, <<"", "">>, << >> }

MaxSegmentedTurns == 2

\* the values of transcript.content both segmentations are called with: a
\* JSON array, a JSON object, an array value, paragraphs of text, and
\* paragraphs of text after an opening paragraph "[Music]"
SegmentedTranscripts ==
  LET turns == { AnalystTurn(MichaelNg, <<"Analyst">>), AnalystTurn(PaddedMikeNg, <<"Analyst">>),
                 [speaker |-> JohnRoe, title |-> <<"CEO">>, content |-> AStatement] }
  IN  { Transcript(1, Symbols[1], c) :
          c \in UNION { [kind : {"json_array", "array"}, items : SeqsOfLen(turns, n)]
                        \cup [kind : {"text", "bracketed_text"},
                              items : SeqsOfLen({Paragraph(t) : t \in turns} \cup {Narration}, n)]
                        \cup {[kind |-> "json_object", items |-> << >>]} :
                        n \in 0..MaxSegmentedTurns } }

\* analystName and questions[0]?.analystCompany of the uploads of extracted
\* questions
UploadsOfQuestions ==
  [analystName : { MikeNg, MichaelNg, <<"Mike.", "Ng">>, JaneDoe, <<"Jane">>, << >> },
   company : { <<"Goldman", "Sachs">>, <<"Barclays">>, <<"Acme", "Capital", "Partners">>,
               <<"Acme", "Partners">>, Unknown, Undefined }]

\* the names of the folders these uploads target
FolderNames == { mappedFolderName(u.analystName, u.company) : u \in UploadsOfQuestions }

\* the arguments of uploadAnalystExcel: those of the uploads of extracted
\* questions, and a folder name with no question or with questions of a company
UploadArguments ==
  UploadsOfQuestions
  \cup [analystName : { <<name>> : name \in FolderNames },
        company : { Undefined, Unknown, <<"Goldman", "Sachs">> }]

(* ---------------------------------------------------------------------- *)
(* The request as a state machine                                          *)
(* ---------------------------------------------------------------------- *)
VARIABLES
  transcripts,                    \* the transcripts of the request
  pc,                             \* position in extractAnalystQuestionsFromMultipleTranscripts
  idx,                            \* index of the transcript the current loop is at
  globalOperatorAnalystInfo,      \* Map analyst name -> company
  allQuestions,                   \* the records as the second pass created them
  transcriptProcessedQuestions,   \* the records after phase 1
  finalConsolidatedQuestions,     \* the records after phase 2 (the returned list)
  reconsolidatedQuestions,        \* the result of consolidating the returned list again
  call,                           \* a call of one function on its own: name, argument, result
  googleDrive,                    \* the folders and files stored in Google Drive
  uploads,                        \* the local variables of each client's uploadAnalystExcel call
  history,                        \* what the calls made so far oblige the stored file to hold
  service,                        \* the fields of the GoogleDriveService object
  fileSystem,                     \* the credential and token files of the server
  authCalls                       \* where initializeDirectAuth and the route's call are

\* the variables of the Google Drive uploads
driveVars == <<googleDrive, uploads, history>>

\* the variables of the authentication
authVars == <<service, fileSystem, authCalls>>

\* the service is authenticated and no authentication call runs
AuthIdle ==
  /\ service = [oauth2Client |-> TRUE, drive |-> "oauth2Client", isAuthenticated |-> TRUE,
                storedTokens |-> "tokens with refresh_token"]
  /\ fileSystem = [serviceAccountKey |-> FALSE, oauthCredentials |-> TRUE,
                   tokens |-> "tokens with refresh_token"]
  /\ authCalls = [init |-> "done", route |-> "idle", calls |-> 0, established |-> TRUE]

vars == <<transcripts, pc, idx, globalOperatorAnalystInfo, allQuestions,
          transcriptProcessedQuestions, finalConsolidatedQuestions,
          reconsolidatedQuestions, call, driveVars, authVars>>

\* the clients whose requests the server handles at the same time
Clients == {"a", "b"}

\* no upload has been requested
NoUpload ==
  [pc |-> "idle", analystName |-> << >>, questions |-> << >>, filename |-> "",
   rootFolderId |-> Null, folderId |-> Null,
   existingFileId |-> Null, existingQuestions |-> << >>, allQuestions |-> << >>,
   isUpdate |-> FALSE]

\* an empty Drive and no request
DriveIdle ==
  /\ googleDrive = [folders |-> << >>, files |-> << >>]
  /\ uploads = [c \in Clients |-> NoUpload]
  /\ history = [due |-> {}, overlap |-> FALSE, downloadFailed |-> FALSE, calls |-> 0]

\* no function is called on its own
NoCall == [fn |-> "none", arg |-> << >>, returned |-> FALSE, result |-> << >>]

Init ==
  /\ transcripts \in Requests(MaxTranscripts, 1, MaxTotalTurns)
  /\ pc = IF transcripts = << >> THEN "phase1" ELSE "first_pass"
  /\ idx = 1
  /\ globalOperatorAnalystInfo = EmptyMap
  /\ allQuestions = << >>
  /\ transcriptProcessedQuestions = << >>
  /\ finalConsolidatedQuestions = << >>
  /\ reconsolidatedQuestions = << >>
  /\ call = NoCall
  /\ DriveIdle
  /\ AuthIdle

\* one iteration of the first loop: extractOperatorAnalystInfo(transcript) and
\* the merge of its entries into the global map
FirstPass ==
  /\ pc = "first_pass"
  /\ Iterable(transcripts[idx].content)
  /\ globalOperatorAnalystInfo' =
       MergeInto(globalOperatorAnalystInfo, extractOperatorAnalystInfo(transcripts[idx]))
  /\ IF idx < Len(transcripts)
       THEN idx' = idx + 1 /\ pc' = pc
       ELSE idx' = 1 /\ pc' = "second_pass"
  /\ UNCHANGED <<authVars, driveVars, call, transcripts, allQuestions, transcriptProcessedQuestions,
                 finalConsolidatedQuestions, reconsolidatedQuestions>>

\* the first loop throws: the segments of the transcript are not iterable
FirstPassThrows ==
  /\ pc = "first_pass"
  /\ ~Iterable(transcripts[idx].content)
  /\ pc' = "threw"
  /\ UNCHANGED <<authVars, driveVars, call, transcripts, idx, globalOperatorAnalystInfo, allQuestions,
                 transcriptProcessedQuestions, finalConsolidatedQuestions,
                 reconsolidatedQuestions>>

\* one iteration of the second loop: the questions of one transcript
SecondPass ==
  /\ pc = "second_pass"
  /\ ~SingleTranscriptThrows(transcripts[idx])
  /\ allQuestions' =
       allQuestions \o extractAnalystQuestionsFromSingleTranscript(
                         transcripts[idx], globalOperatorAnalystInfo, Len(allQuestions) + 1)
  /\ IF idx < Len(transcripts)
       THEN idx' = idx + 1 /\ pc' = pc
       ELSE idx' = 1 /\ pc' = "phase1"
  /\ UNCHANGED <<authVars, driveVars, call, transcripts, globalOperatorAnalystInfo, transcriptProcessedQuestions,
                 finalConsolidatedQuestions, reconsolidatedQuestions>>

\* the second loop throws on a segment with a missing property
SecondPassThrows ==
  /\ pc = "second_pass"
  /\ SingleTranscriptThrows(transcripts[idx])
  /\ pc' = "threw"
  /\ UNCHANGED <<authVars, driveVars, call, transcripts, idx, globalOperatorAnalystInfo, allQuestions,
                 transcriptProcessedQuestions, finalConsolidatedQuestions,
                 reconsolidatedQuestions>>

\* phase 1 of applyCompanyWideAnalystConsolidation(allQuestions, global map)
Phase1 ==
  /\ pc = "phase1"
  /\ transcriptProcessedQuestions' =
       TranscriptProcessed(allQuestions, globalOperatorAnalystInfo)
  /\ pc' = "phase2"
  /\ UNCHANGED <<authVars, driveVars, call, transcripts, idx, globalOperatorAnalystInfo, allQuestions,
                 finalConsolidatedQuestions, reconsolidatedQuestions>>

\* phase 2 of applyCompanyWideAnalystConsolidation and the return
Phase2 ==
  /\ pc = "phase2"
  /\ finalConsolidatedQuestions' = FinalConsolidated(transcriptProcessedQuestions)
  /\ pc' = "done"
  /\ UNCHANGED <<authVars, driveVars, call, transcripts, idx, globalOperatorAnalystInfo, allQuestions,
                 transcriptProcessedQuestions, reconsolidatedQuestions>>

\* applyCompanyWideAnalystConsolidation applied to its own result, same map
Reconsolidate ==
  /\ pc = "done"
  /\ reconsolidatedQuestions' =
       applyCompanyWideAnalystConsolidation(finalConsolidatedQuestions,
                                            globalOperatorAnalystInfo)
  /\ pc' = "reconsolidated"
  /\ UNCHANGED <<authVars, driveVars, call, transcripts, idx, globalOperatorAnalystInfo, allQuestions,
                 transcriptProcessedQuestions, finalConsolidatedQuestions>>

Next ==
  \/ FirstPass
  \/ FirstPassThrows
  \/ SecondPass
  \/ SecondPassThrows
  \/ Phase1
  \/ Phase2
  \/ Reconsolidate

Spec == Init /\ [][Next]_vars

(* ---------------------------------------------------------------------- *)
(* The functions called on their own                                       *)
(* ---------------------------------------------------------------------- *)

\* the calls of fn that have not returned yet, one for each argument
Calls(fn, args) ==
  { [fn |-> fn, arg |-> a, returned |-> FALSE, result |-> << >>] : a \in args }

\* no request for analyst questions is being served
PipelineIdle(at) ==
  /\ transcripts = << >>
  /\ pc = at
  /\ idx = 1
  /\ globalOperatorAnalystInfo = EmptyMap
  /\ allQuestions = << >>
  /\ transcriptProcessedQuestions = << >>
  /\ finalConsolidatedQuestions = << >>
  /\ reconsolidatedQuestions = << >>

\* a function of the pipeline is about to be called with one of its arguments
UnitInit ==
  /\ \/ call \in Calls("extractPreparedStatements", PreparedTranscripts)
     \/ call \in Calls("firstPass", OperatorRequests)
     \/ call \in Calls("extractAnalystQuestions.firstPass",
                        { r[1] : r \in { q \in OperatorRequests : Len(q) = 1 } })
     \/ call \in Calls("extractAnalystQuestionsFromSingleTranscript", QuestionTranscripts)
     \/ call \in Calls("extractAnalystQuestionsFromSingleTranscript.segments",
                        SegmentedTranscripts)
     \/ call \in Calls("extractPreparedStatements.speakers", SegmentedTranscripts)
     \/ call \in Calls("uploadAnalystExcel.mappedFolderName", UploadArguments)
     \/ call \in Calls("isAnalyst", Titles)
     \/ call \in Calls("normalizeCompanyName", Companies)
     \/ call \in Calls("normalizeAnalystName", DisplayNames)
     \/ call \in Calls("extractAnalystQuestions.isAnalyst", Titles)
     \/ call \in Calls("client.isAnalyst", Titles)
  /\ PipelineIdle("unit")
  /\ DriveIdle
  /\ AuthIdle

\* the called function returns result
Return(result) ==
  /\ call' = [call EXCEPT !.returned = TRUE, !.result = result]
  /\ UNCHANGED <<authVars, driveVars, transcripts, pc, idx, globalOperatorAnalystInfo, allQuestions,
                 transcriptProcessedQuestions, finalConsolidatedQuestions,
                 reconsolidatedQuestions>>

CallExtractPreparedStatements ==
  /\ call.fn = "extractPreparedStatements" /\ ~call.returned
  /\ Return(extractPreparedStatements(call.arg))

\* the first loop of extractAnalystQuestionsFromMultipleTranscripts
CallFirstPass ==
  /\ call.fn = "firstPass" /\ ~call.returned
  /\ Return(GlobalInfo(EmptyMap, call.arg))

\* the first loop of extractAnalystQuestions
CallOperatorInfoOfOneTranscript ==
  /\ call.fn = "extractAnalystQuestions.firstPass" /\ ~call.returned
  /\ Return(OperatorInfoOfOneTranscript(call.arg))

\* the analyst test of extractAnalystQuestionsFromSingleTranscript
CallIsAnalyst ==
  /\ call.fn = "isAnalyst" /\ ~call.returned
  /\ Return(isAnalyst(call.arg))

\* the analyst test of extractAnalystQuestions (one transcript)
CallIsAnalystOfOneTranscript ==
  /\ call.fn = "extractAnalystQuestions.isAnalyst" /\ ~call.returned
  /\ Return(isAnalystOfOneTranscript(call.arg))

\* the analyst test of the client library
CallIsAnalystOfClient ==
  /\ call.fn = "client.isAnalyst" /\ ~call.returned
  /\ Return(isAnalystOfClient(call.arg))

CallExtractAnalystQuestionsFromSingleTranscript ==
  /\ call.fn = "extractAnalystQuestionsFromSingleTranscript" /\ ~call.returned
  /\ Return(extractAnalystQuestionsFromSingleTranscript(call.arg, KnownIntroductions, 1))

CallNormalizeCompanyName ==
  /\ call.fn = "normalizeCompanyName" /\ ~call.returned
  /\ Return(normalizeCompanyName(call.arg))

CallNormalizeAnalystName ==
  /\ call.fn = "normalizeAnalystName" /\ ~call.returned
  /\ Return(normalizeAnalystName(call.arg))

\* the segmentation of extractAnalystQuestionsFromSingleTranscript
CallParseSegments ==
  /\ call.fn = "extractAnalystQuestionsFromSingleTranscript.segments" /\ ~call.returned
  /\ Return(ParseSegments(call.arg.content))

\* the segmentation of extractPreparedStatements
CallPreparedSpeakers ==
  /\ call.fn = "extractPreparedStatements.speakers" /\ ~call.returned
  /\ Return(PreparedSpeakers(call.arg.content))

\* the folder name uploadAnalystExcel derives from its arguments
CallMappedFolderName ==
  /\ call.fn = "uploadAnalystExcel.mappedFolderName" /\ ~call.returned
  /\ Return(mappedFolderName(call.arg.analystName, call.arg.company))

UnitNext ==
  \/ CallMappedFolderName
  \/ CallParseSegments
  \/ CallPreparedSpeakers
  \/ CallNormalizeCompanyName
  \/ CallNormalizeAnalystName
  \/ CallExtractAnalystQuestionsFromSingleTranscript
  \/ CallExtractPreparedStatements
  \/ CallFirstPass
  \/ CallOperatorInfoOfOneTranscript
  \/ CallIsAnalyst
  \/ CallIsAnalystOfOneTranscript
  \/ CallIsAnalystOfClient

UnitSpec == UnitInit /\ [][UnitNext]_vars

(* ---------------------------------------------------------------------- *)
(* GoogleDriveService.uploadAnalystExcel: calls served at the same time     *)
(*                                                                          *)
(* Every await of uploadAnalystExcel and of the methods it calls is a step; *)
(* the calls of the clients interleave at these steps.  The service is      *)
(* authenticated.  Drive lists folders and files in the order of their      *)
(* creation.  A file name is kept as its stem and the quarter and year of   *)
(* its "_Qnyyyy.xlsx" ending (quarter "" when it does not end so).          *)
(* ---------------------------------------------------------------------- *)

\* calls of uploadAnalystExcel in one behaviour
MaxUploads == 3

\* questions passed by one call
MaxPassed == 2

\* rootFolderName of findOrCreateAnalystFolder
rootFolderName == "Testing for Analyst Profile Overview"

GrowthQuestion ==
  [question |-> "What is your growth outlook?", symbol |-> "MSFT", quarter |-> "Q1",
   year |-> 2024, analystCompany |-> <<"Barclays">>, dateAdded |-> ""]

MarginQuestion ==
  [question |-> "Can you comment on margins?", symbol |-> "MSFT", quarter |-> "Q2",
   year |-> 2024, analystCompany |-> <<"Barclays">>, dateAdded |-> ""]

\* the lists of questions a call passes: none, one, or several with or without
\* a repeated entry
PassedLists ==
  UNION { [1..n -> {GrowthQuestion, MarginQuestion}] : n \in 0..MaxPassed }

\* the folders Drive lists for name under parentId
FoldersNamed(drive, name, parentId) ==
  SelectSeq(drive.folders, LAMBDA f : f.name = name /\ f.parent = parentId)

\* findFolder(name, parentId): files[0].id of the listing, or null
findFolder(drive, name, parentId) ==
  IF FoldersNamed(drive, name, parentId) = << >> THEN Null
  ELSE FoldersNamed(drive, name, parentId)[1].id

\* the id Drive gives to the next folder or file
NewId(drive) == Len(drive.folders) + Len(drive.files) + 1

\* createFolder(name, parentId)
createFolder(drive, name, parentId) ==
  [drive EXCEPT !.folders = Append(@, [id |-> NewId(drive), name |-> name, parent |-> parentId])]

\* findAnalystFiles(analystName, folderId): the sheets of the folder whose name
\* contains analystName, with the quarter and year parsed from the name
findAnalystFiles(drive, analystName, folderId) ==
  LET files == SelectSeq(drive.files,
                         LAMBDA f : f.parent = folderId /\ f.name.stem = analystName)
  IN  [i \in 1..Len(files) |->
         [fileId |-> files[i].id,
          quarter |-> IF files[i].name.quarter = "" THEN "Q1" ELSE files[i].name.quarter,
          year |-> IF files[i].name.quarter = "" THEN 2020 ELSE files[i].name.year]]

\* the sheet of the file fileId
RowsOf(drive, fileId) ==
  (CHOOSE f \in { drive.files[i] : i \in 1..Len(drive.files) } : f.id = fileId).rows

\* questions[0]?.analystCompany
CompanyOfFirst(questions) ==
  IF questions = << >> THEN Undefined ELSE questions[1].analystCompany

\* mappedFolderName of the call of client c
MappedFolderNameOf(upload) ==
  mappedFolderName(upload.analystName, CompanyOfFirst(upload.questions))

\* finalFilename: filename || `${mappedFolderName}_${quarter}${year}.xlsx`
finalFilename(upload) ==
  IF upload.filename # "" THEN [stem |-> upload.filename, quarter |-> "", year |-> 0]
  ELSE [stem |-> MappedFolderNameOf(upload),
        quarter |-> getMostRecentQuarter(upload.questions).quarter,
        year |-> getMostRecentQuarter(upload.questions).year]

\* the folders of the analysts: listAnalystFolders
AnalystFolders(drive) ==
  LET rootFolderId == findFolder(drive, rootFolderName, Null)
  IN  { drive.folders[i].name : i \in { j \in 1..Len(drive.folders) :
                                          /\ rootFolderId # Null
                                          /\ drive.folders[j].parent = rootFolderId } }

\* the calls of uploadAnalystExcel: with extracted questions of an analyst, as
\* the upload route and generateAnalystProfile make them, and with the name of
\* a folder, no question and a file name, as performAutoUpdate makes them
UploadCalls(drive) ==
  [analystName : {MichaelNg}, questions : PassedLists, filename : {""}]
  \cup { [analystName |-> <<name>>, questions |-> << >>,
          filename |-> name \o "_MSFT_Questions.xlsx"] : name \in AnalystFolders(drive) }

\* the four fields by which a stored question is recognised
KeyOf(q) == <<q.question, q.symbol, q.quarter, q.year>>

KeysOf(questions) == { KeyOf(questions[i]) : i \in 1..Len(questions) }

\* the questions a call for the analyst folder name would find stored: those
\* of the most recent sheet of the folder
StoredQuestions(drive, name) ==
  LET rootFolderId == findFolder(drive, rootFolderName, Null)
      folderId == IF rootFolderId = Null THEN Null ELSE findFolder(drive, name, rootFolderId)
      existingFiles == IF folderId = Null THEN << >> ELSE findAnalystFiles(drive, name, folderId)
  IN  IF existingFiles = << >> THEN << >>
      ELSE QuestionsOfRows(RowsOf(drive, getMostRecentFile(existingFiles).fileId))

\* some call has not returned
InProgress(c) == uploads[c].pc \notin {"idle", "returned"}

\* the call of client c moves to its next await with new local variables
Step(c, upload) ==
  /\ uploads' = [uploads EXCEPT ![c] = upload]
  /\ UNCHANGED <<authVars, call, transcripts, pc, idx, globalOperatorAnalystInfo, allQuestions,
                 transcriptProcessedQuestions, finalConsolidatedQuestions,
                 reconsolidatedQuestions>>

\* a client calls uploadAnalystExcel(analystName, questions, filename)
StartUpload(c) ==
  /\ ~InProgress(c)
  /\ history.calls < MaxUploads
  /\ \E u \in UploadCalls(googleDrive) :
       LET upload == [NoUpload EXCEPT !.pc = "findRoot", !.analystName = u.analystName,
                                      !.questions = u.questions, !.filename = u.filename]
           name == MappedFolderNameOf(upload)
       IN  /\ Step(c, upload)
           /\ history' = [history EXCEPT
                !.calls = @ + 1,
                !.overlap = @ \/ \E d \in Clients \ {c} : InProgress(d),
                !.due = @ \cup { <<name, k>> :
                                   k \in KeysOf(u.questions)
                                         \cup KeysOf(StoredQuestions(googleDrive, name)) }]
  /\ UNCHANGED googleDrive

\* findOrCreateAnalystFolder: await this.findFolder(rootFolderName)
FindRoot(c) ==
  /\ uploads[c].pc = "findRoot"
  /\ LET rootFolderId == findFolder(googleDrive, rootFolderName, Null)
     IN  Step(c, [uploads[c] EXCEPT !.rootFolderId = rootFolderId,
                                    !.pc = IF rootFolderId = Null THEN "createRoot"
                                           ELSE "findFolder"])
  /\ UNCHANGED <<googleDrive, history>>

\* findOrCreateAnalystFolder: await this.createFolder(rootFolderName, 'root')
CreateRoot(c) ==
  /\ uploads[c].pc = "createRoot"
  /\ googleDrive' = createFolder(googleDrive, rootFolderName, Null)
  /\ Step(c, [uploads[c] EXCEPT !.rootFolderId = NewId(googleDrive), !.pc = "findFolder"])
  /\ UNCHANGED history

\* findOrCreateAnalystFolder: await this.findFolder(analystName, rootFolderId)
FindFolder(c) ==
  /\ uploads[c].pc = "findFolder"
  /\ LET analystFolderId ==
           findFolder(googleDrive, MappedFolderNameOf(uploads[c]), uploads[c].rootFolderId)
     IN  Step(c, [uploads[c] EXCEPT !.folderId = analystFolderId,
                                    !.pc = IF analystFolderId = Null THEN "createFolder"
                                           ELSE "findFiles"])
  /\ UNCHANGED <<googleDrive, history>>

\* findOrCreateAnalystFolder: await this.createFolder(analystName, rootFolderId)
CreateFolder(c) ==
  /\ uploads[c].pc = "createFolder"
  /\ googleDrive' = createFolder(googleDrive, MappedFolderNameOf(uploads[c]),
                                 uploads[c].rootFolderId)
  /\ Step(c, [uploads[c] EXCEPT !.folderId = NewId(googleDrive), !.pc = "findFiles"])
  /\ UNCHANGED history

\* await this.findAnalystFiles(mappedFolderName, folderId), and the choice of
\* the file to replace
FindFiles(c) ==
  /\ uploads[c].pc = "findFiles"
  /\ LET existingFiles ==
           findAnalystFiles(googleDrive, MappedFolderNameOf(uploads[c]), uploads[c].folderId)
     IN  IF existingFiles # << >>
           THEN Step(c, [uploads[c] EXCEPT
                           !.existingFileId = getMostRecentFile(existingFiles).fileId,
                           !.pc = "download"])
           ELSE Step(c, [uploads[c] EXCEPT !.allQuestions = uploads[c].questions,
                                           !.pc = "write"])
  /\ UNCHANGED <<googleDrive, history>>

\* await this.downloadExistingQuestions(existingFileId), and the merge
Download(c) ==
  /\ uploads[c].pc = "download"
  /\ LET existingQuestions == QuestionsOfRows(RowsOf(googleDrive, uploads[c].existingFileId))
     IN  Step(c, [uploads[c] EXCEPT
                    !.existingQuestions = existingQuestions,
                    !.allQuestions = mergeQuestions(existingQuestions, uploads[c].questions),
                    !.pc = "write"])
  /\ UNCHANGED <<googleDrive, history>>

\* downloadExistingQuestions has no access token, or its request fails: the
\* catch returns [] and the merge goes on
DownloadFails(c) ==
  /\ uploads[c].pc = "download"
  /\ Step(c, [uploads[c] EXCEPT
                !.existingQuestions = << >>,
                !.allQuestions = mergeQuestions(<< >>, uploads[c].questions),
                !.pc = "write"])
  /\ history' = [history EXCEPT !.downloadFailed = TRUE]
  /\ UNCHANGED googleDrive

\* shouldReplace && existingFileId: await this.drive.files.update, return
UpdateFile(c) ==
  /\ uploads[c].pc = "write"
  /\ uploads[c].existingFileId # Null
  /\ googleDrive' =
       [googleDrive EXCEPT !.files =
          [i \in 1..Len(@) |->
             IF @[i].id = uploads[c].existingFileId
               THEN [@[i] EXCEPT !.name = finalFilename(uploads[c]),
                                 !.rows = ExcelData(uploads[c].allQuestions)]
               ELSE @[i]]]
  /\ Step(c, [uploads[c] EXCEPT !.isUpdate = TRUE, !.pc = "returned"])
  /\ UNCHANGED history

\* otherwise: await this.drive.files.create, return
CreateFile(c) ==
  /\ uploads[c].pc = "write"
  /\ uploads[c].existingFileId = Null
  /\ googleDrive' =
       [googleDrive EXCEPT !.files =
          Append(@, [id |-> NewId(googleDrive), name |-> finalFilename(uploads[c]),
                     parent |-> uploads[c].folderId,
                     rows |-> ExcelData(uploads[c].allQuestions)])]
  /\ Step(c, [uploads[c] EXCEPT !.isUpdate = FALSE, !.pc = "returned"])
  /\ UNCHANGED history

DriveInit ==
  /\ PipelineIdle("drive")
  /\ call = NoCall
  /\ DriveIdle
  /\ AuthIdle

DriveNext ==
  \E c \in Clients :
    \/ StartUpload(c)
    \/ FindRoot(c)
    \/ CreateRoot(c)
    \/ FindFolder(c)
    \/ CreateFolder(c)
    \/ FindFiles(c)
    \/ Download(c)
    \/ DownloadFails(c)
    \/ UpdateFile(c)
    \/ CreateFile(c)

DriveSpec == DriveInit /\ [][DriveNext]_vars

(* ---------------------------------------------------------------------- *)
(* GoogleDriveService: authentication                                       *)
(*                                                                          *)
(* The constructor starts initializeDirectAuth and does not wait for it;    *)
(* the routes call setCredentials and authenticateDirectly while it may     *)
(* still be waiting for Drive.  A step runs from one await on a network     *)
(* request to the next; loadStoredTokens and saveTokens work synchronously  *)
(* and are part of the step that awaits them.  Whether a request to Drive   *)
(* or to the token endpoint succeeds is not decided by the program.         *)
(* ---------------------------------------------------------------------- *)

\* calls of setCredentials and authenticateDirectly in one behaviour
MaxAuthCalls == 2

\* this.drive before any assignment, after "this.drive = null", and the
\* clients google.drive({auth}) makes
DriveValues == {"undefined", "null", "serviceAccount", "oauth2Client"}

\* this.storedTokens and the content of .google-tokens.json
TokenValues == {"null", "tokens", "tokens with refresh_token"}

\* the fields of the service after the field initialisers
NewService ==
  [oauth2Client |-> FALSE, drive |-> "undefined", isAuthenticated |-> FALSE,
   storedTokens |-> "null"]

\* the rest of initializeDirectAuth from the OAuth credentials on (3035-3093),
\* up to its next request to Drive
OAuthSetup(s, files) ==
  IF ~files.oauthCredentials
    THEN [pc |-> "done", service |-> [s EXCEPT !.isAuthenticated = FALSE]]
  ELSE LET loaded == IF files.tokens # "null" THEN files.tokens ELSE s.storedTokens
       IN  IF loaded # "null"
             THEN [pc |-> "testStoredTokens",
                   service |-> [s EXCEPT !.oauth2Client = TRUE, !.storedTokens = loaded,
                                         !.drive = "oauth2Client",
                                         !.isAuthenticated = TRUE]]
             ELSE [pc |-> "done",
                   service |-> [s EXCEPT !.oauth2Client = TRUE, !.storedTokens = loaded,
                                         !.drive = "null", !.isAuthenticated = FALSE]]

\* nothing of the pipeline or of the uploads moves
AuthFrame ==
  UNCHANGED <<driveVars, call, transcripts, pc, idx, globalOperatorAnalystInfo,
              allQuestions, transcriptProcessedQuestions, finalConsolidatedQuestions,
              reconsolidatedQuestions>>

\* initializeDirectAuth up to its first request to Drive
InitializeDirectAuth ==
  /\ authCalls.init = "start"
  /\ IF fileSystem.serviceAccountKey
       THEN /\ service' = [service EXCEPT !.drive = "serviceAccount",
                                          !.isAuthenticated = TRUE]
            /\ authCalls' = [authCalls EXCEPT !.init = "testServiceAccount"]
       ELSE /\ service' = OAuthSetup(service, fileSystem).service
            /\ authCalls' = [authCalls EXCEPT !.init = OAuthSetup(service, fileSystem).pc]
  /\ UNCHANGED fileSystem
  /\ AuthFrame

\* the test request with the service account succeeds: return
ServiceAccountTestSucceeds ==
  /\ authCalls.init = "testServiceAccount"
  /\ authCalls' = [authCalls EXCEPT !.init = "done",
                                    !.established = @ \/ service.isAuthenticated]
  /\ UNCHANGED <<service, fileSystem>>
  /\ AuthFrame

\* the test request with the service account fails: fall back to OAuth
ServiceAccountTestFails ==
  /\ authCalls.init = "testServiceAccount"
  /\ service' = OAuthSetup(service, fileSystem).service
  /\ authCalls' = [authCalls EXCEPT !.init = OAuthSetup(service, fileSystem).pc]
  /\ UNCHANGED fileSystem
  /\ AuthFrame

\* the test request with the stored tokens succeeds: return
StoredTokensTestSucceeds ==
  /\ authCalls.init = "testStoredTokens"
  /\ authCalls' = [authCalls EXCEPT !.init = "done",
                                    !.established = @ \/ service.isAuthenticated]
  /\ UNCHANGED <<service, fileSystem>>
  /\ AuthFrame

\* the test request with the stored tokens fails: prepare for the OAuth flow
StoredTokensTestFails ==
  /\ authCalls.init = "testStoredTokens"
  /\ service' = [service EXCEPT !.drive = "null", !.isAuthenticated = FALSE]
  /\ authCalls' = [authCalls EXCEPT !.init = "done"]
  /\ UNCHANGED fileSystem
  /\ AuthFrame

\* a route calls setCredentials(code): up to the token request, or to the
\* catch when there is no oauth2Client to ask
SetCredentials ==
  /\ authCalls.route = "idle"
  /\ authCalls.calls < MaxAuthCalls
  /\ IF service.oauth2Client
       THEN /\ authCalls' = [authCalls EXCEPT !.route = "getToken", !.calls = @ + 1]
            /\ UNCHANGED service
       ELSE /\ authCalls' = [authCalls EXCEPT !.calls = @ + 1, !.established = FALSE]
            /\ service' = [service EXCEPT !.isAuthenticated = FALSE]
  /\ UNCHANGED fileSystem
  /\ AuthFrame

\* getToken answers: credentials set, tokens saved, up to the test request
GetTokenSucceeds ==
  /\ authCalls.route = "getToken"
  /\ \E tokens \in TokenValues \ {"null"} :
       /\ service' = [service EXCEPT !.drive = "oauth2Client", !.isAuthenticated = TRUE,
                                     !.storedTokens = tokens]
       /\ fileSystem' = [fileSystem EXCEPT !.tokens = tokens]
  /\ authCalls' = [authCalls EXCEPT !.route = "testNewTokens"]
  /\ AuthFrame

\* getToken fails: the catch of setCredentials
GetTokenFails ==
  /\ authCalls.route = "getToken"
  /\ service' = [service EXCEPT !.isAuthenticated = FALSE]
  /\ authCalls' = [authCalls EXCEPT !.route = "idle", !.established = FALSE]
  /\ UNCHANGED fileSystem
  /\ AuthFrame

\* the test request of setCredentials succeeds: setCredentials returns
NewTokensTestSucceeds ==
  /\ authCalls.route = "testNewTokens"
  /\ authCalls' = [authCalls EXCEPT !.route = "idle", !.established = TRUE]
  /\ UNCHANGED <<service, fileSystem>>
  /\ AuthFrame

\* the test request of setCredentials fails: its catch
NewTokensTestFails ==
  /\ authCalls.route = "testNewTokens"
  /\ service' = [service EXCEPT !.isAuthenticated = FALSE]
  /\ authCalls' = [authCalls EXCEPT !.route = "idle", !.established = FALSE]
  /\ UNCHANGED fileSystem
  /\ AuthFrame

\* a route calls authenticateDirectly(): up to its test request, or to
\* "return false" when there is no refresh token or no oauth2Client
AuthenticateDirectly ==
  /\ authCalls.route = "idle"
  /\ authCalls.calls < MaxAuthCalls
  /\ IF service.storedTokens = "tokens with refresh_token" /\ service.oauth2Client
       THEN /\ service' = [service EXCEPT !.drive = "oauth2Client"]
            /\ authCalls' = [authCalls EXCEPT !.route = "testRefresh", !.calls = @ + 1]
       ELSE /\ authCalls' = [authCalls EXCEPT !.calls = @ + 1]
            /\ UNCHANGED service
  /\ UNCHANGED fileSystem
  /\ AuthFrame

\* the test request of authenticateDirectly succeeds: return true
RefreshTestSucceeds ==
  /\ authCalls.route = "testRefresh"
  /\ service' = [service EXCEPT !.isAuthenticated = TRUE]
  /\ authCalls' = [authCalls EXCEPT !.route = "idle", !.established = TRUE]
  /\ UNCHANGED fileSystem
  /\ AuthFrame

\* the test request of authenticateDirectly fails: the stored tokens are
\* cleared and their file deleted, return false
RefreshTestFails ==
  /\ authCalls.route = "testRefresh"
  /\ service' = [service EXCEPT !.storedTokens = "null"]
  /\ fileSystem' = [fileSystem EXCEPT !.tokens = "null"]
  /\ authCalls' = [authCalls EXCEPT !.route = "idle"]
  /\ AuthFrame

\* the server starts: the service is constructed, with or without the key of
\* a service account, OAuth credentials and a token file
AuthInit ==
  /\ PipelineIdle("auth")
  /\ call = NoCall
  /\ DriveIdle
  /\ service = NewService
  /\ fileSystem \in [serviceAccountKey : BOOLEAN, oauthCredentials : BOOLEAN,
                     tokens : TokenValues]
  /\ authCalls = [init |-> "start", route |-> "idle", calls |-> 0, established |-> FALSE]

AuthNext ==
  \/ InitializeDirectAuth
  \/ ServiceAccountTestSucceeds
  \/ ServiceAccountTestFails
  \/ StoredTokensTestSucceeds
  \/ StoredTokensTestFails
  \/ SetCredentials
  \/ GetTokenSucceeds
  \/ GetTokenFails
  \/ NewTokensTestSucceeds
  \/ NewTokensTestFails
  \/ AuthenticateDirectly
  \/ RefreshTestSucceeds
  \/ RefreshTestFails

AuthSpec == AuthInit /\ [][AuthNext]_vars

(* ---------------------------------------------------------------------- *)
(* Properties                                                              *)
(* ---------------------------------------------------------------------- *)

\* the record of the list that is the object created as number ref
ByRef(list, ref) == list[CHOOSE i \in 1..Len(list) : list[i].ref = ref]

Consolidated == pc \in {"done", "reconsolidated"}

\* the canonical name of the record as the second pass created it
CanonicalName(q) == normalizeAnalystName(Trim(q.analystName))

\* two created records belong to one identity: same symbol, same normalized name
SameIdentity(q1, q2) ==
  q1.symbol = q2.symbol /\ CanonicalName(q1) = CanonicalName(q2)

\* C1: consolidating the consolidated list again, with the same operator map,
\* changes no analystName and no analystCompany of any record.
C1_ConsolidationIdempotent ==
  pc = "reconsolidated" =>
    \A r \in 1..Len(allQuestions) :
       /\ ByRef(reconsolidatedQuestions, r).analystName
            = ByRef(finalConsolidatedQuestions, r).analystName
       /\ ByRef(reconsolidatedQuestions, r).analystCompany
            = ByRef(finalConsolidatedQuestions, r).analystCompany

\* C2: a record whose analystName is a key of the operator map ends, after
\* both phases, with the normalized operator-given institution.
C2_OperatorPrecedence ==
  Consolidated =>
    \A r \in 1..Len(allQuestions) :
       allQuestions[r].analystName \in DOMAIN globalOperatorAnalystInfo =>
         ByRef(finalConsolidatedQuestions, r).analystCompany
           = normalizeCompanyName(globalOperatorAnalystInfo[allQuestions[r].analystName])

\* the identity groups phase 2 forms from the phase-1 result
IdentityGroups ==
  LET symbolGroups == SymbolGroups(transcriptProcessedQuestions)
  IN  Concat([g \in 1..Len(symbolGroups) |-> AnalystNameGroups(symbolGroups[g])])

\* C3: the members of one identity group of phase 2 all have the same symbol,
\* and the company a record has after phase 2 is the phase-1 company of a
\* record of the same symbol (its own, or the one written over it).
C3_MergeWithinSymbol ==
  Consolidated =>
    /\ \A g \in 1..Len(IdentityGroups) :
          \A i, j \in 1..Len(IdentityGroups[g]) :
             IdentityGroups[g][i].symbol = IdentityGroups[g][j].symbol
    /\ \A r \in 1..Len(allQuestions) :
          \E k \in 1..Len(transcriptProcessedQuestions) :
             /\ transcriptProcessedQuestions[k].symbol
                  = ByRef(finalConsolidatedQuestions, r).symbol
             /\ transcriptProcessedQuestions[k].analystCompany
                  = ByRef(finalConsolidatedQuestions, r).analystCompany

\* C3 witness: the same analyst under two symbols, known under one and
\* 'Unknown' under the other, and still so after consolidation.
C3_Witness ==
  /\ pc = "done"
  /\ \E i, j \in 1..Len(finalConsolidatedQuestions) :
        /\ finalConsolidatedQuestions[i].symbol # finalConsolidatedQuestions[j].symbol
        /\ finalConsolidatedQuestions[i].analystName = finalConsolidatedQuestions[j].analystName
        /\ finalConsolidatedQuestions[i].analystCompany = Unknown
        /\ finalConsolidatedQuestions[j].analystCompany # Unknown

\* name, company and origin of the records of one symbol
OutcomeOf(questions, symbol) ==
  { <<questions[i].transcriptId, questions[i].analystTitle,
      questions[i].analystName, questions[i].analystCompany>> :
      i \in { k \in 1..Len(questions) : questions[k].symbol = symbol } }

\* C4: the final analystName and analystCompany of the records of a symbol
\* are those the request gives when it holds the transcripts of that symbol only.
C4_SymbolsIndependent ==
  pc = "done" =>
    \A s \in 1..Len(Symbols) :
       LET own == SelectSeq(transcripts, LAMBDA t : t.symbol = Symbols[s])
       IN  OutcomeOf(finalConsolidatedQuestions, Symbols[s])
             = OutcomeOf(extractAnalystQuestionsFromMultipleTranscripts(own), Symbols[s])

\* C5 (as claimed): of two records of one identity, one created with
\* 'Unknown' and one with a known institution, both end with that institution.
C5_PropagationOfKnown ==
  Consolidated =>
    \A i, j \in 1..Len(allQuestions) :
       ( /\ SameIdentity(allQuestions[i], allQuestions[j])
         /\ allQuestions[i].analystCompany = Unknown
         /\ allQuestions[j].analystCompany # Unknown )
       => /\ ByRef(finalConsolidatedQuestions, i).analystCompany
               = allQuestions[j].analystCompany
          /\ ByRef(finalConsolidatedQuestions, j).analystCompany
               = allQuestions[j].analystCompany

\* the positions in the phase-1 result of the members of the identity of q
\* that have a company other than 'Unknown' after phase 1
KnownAfterPhase1(q) ==
  { k \in 1..Len(transcriptProcessedQuestions) :
      /\ SameIdentity(ByRef(allQuestions, transcriptProcessedQuestions[k].ref), q)
      /\ transcriptProcessedQuestions[k].analystCompany # Unknown }

\* C5 (amended): of two records of one identity, one created with 'Unknown'
\* and one with a known institution, both end with the same company: the one
\* that the last member of the identity with a company other than 'Unknown'
\* has after phase 1; it is the known institution itself when no member
\* has another company other than 'Unknown' after phase 1.
C5_PropagationOfLastKnown ==
  Consolidated =>
    \A i, j \in 1..Len(allQuestions) :
       ( /\ SameIdentity(allQuestions[i], allQuestions[j])
         /\ allQuestions[i].analystCompany = Unknown
         /\ allQuestions[j].analystCompany # Unknown
         /\ KnownAfterPhase1(allQuestions[i]) # {} )
       => LET known == KnownAfterPhase1(allQuestions[i])
              last == CHOOSE k \in known : \A m \in known : m <= k
              company == transcriptProcessedQuestions[last].analystCompany
          IN  /\ ByRef(finalConsolidatedQuestions, i).analystCompany = company
              /\ ByRef(finalConsolidatedQuestions, j).analystCompany = company
              /\ (\A k \in known : transcriptProcessedQuestions[k].analystCompany
                                     = allQuestions[j].analystCompany)
                    => company = allQuestions[j].analystCompany

\* C5 witness: a record created with 'Unknown' ends with the institution of
\* a record of its identity that comes from another transcript.
C5_Witness ==
  /\ pc = "done"
  /\ \E i, j \in 1..Len(allQuestions) :
        /\ SameIdentity(allQuestions[i], allQuestions[j])
        /\ allQuestions[i].transcriptId # allQuestions[j].transcriptId
        /\ allQuestions[i].analystCompany = Unknown
        /\ allQuestions[j].analystCompany # Unknown
        /\ ByRef(finalConsolidatedQuestions, i).analystCompany = allQuestions[j].analystCompany
        /\ ByRef(finalConsolidatedQuestions, j).analystCompany = allQuestions[j].analystCompany

\* the fields consolidation must leave alone
Provenance(q) ==
  <<q.question, q.analystTitle, q.transcriptId, q.symbol, q.quarter, q.year,
    q.transcriptTitle>>

\* C6: question, analystTitle, transcriptId, symbol, quarter, year and
\* transcriptTitle of every record are after consolidation what they were before.
C6_OnlyNameAndCompanyChange ==
  Consolidated =>
    \A r \in 1..Len(allQuestions) :
       \A i \in 1..Len(finalConsolidatedQuestions) :
          finalConsolidatedQuestions[i].ref = r =>
            Provenance(finalConsolidatedQuestions[i]) = Provenance(allQuestions[r])

\* C6 witness: consolidation has rewritten both the name and the company of a record.
C6_Witness ==
  /\ pc = "done"
  /\ \E r \in 1..Len(allQuestions) :
        /\ ByRef(finalConsolidatedQuestions, r).analystName # allQuestions[r].analystName
        /\ ByRef(finalConsolidatedQuestions, r).analystCompany # allQuestions[r].analystCompany

\* C7: the returned list holds every input record exactly once.
C7_Permutation ==
  Consolidated =>
    /\ Len(finalConsolidatedQuestions) = Len(allQuestions)
    /\ \A r \in 1..Len(allQuestions) :
          Cardinality({ i \in 1..Len(finalConsolidatedQuestions) :
                          finalConsolidatedQuestions[i].ref = r }) = 1

\* C7 witness: records of two transcripts, returned in an order other than
\* the input order.
C7_Witness ==
  /\ pc = "done"
  /\ \E i, j \in 1..Len(finalConsolidatedQuestions) :
        /\ i < j
        /\ finalConsolidatedQuestions[i].ref > finalConsolidatedQuestions[j].ref
        /\ finalConsolidatedQuestions[i].transcriptId # finalConsolidatedQuestions[j].transcriptId

\* a transcript whose content cannot be turned into well-formed turns
Malformed(transcript) ==
  \/ transcript.content.kind = "json_object"
  \/ /\ transcript.content.kind = "json_array"
     /\ \E i \in 1..Len(transcript.content.items) :
           Undefined \in { transcript.content.items[i].speaker,
                           transcript.content.items[i].title }
  \/ /\ transcript.content.kind = "text"
     /\ transcript.content.items # << >>
     /\ \A i \in 1..Len(transcript.content.items) :
           transcript.content.items[i].para = "narration"

\* C8: the extraction never throws, a malformed transcript contributes no
\* record and the other transcripts contribute theirs.
C8_BadTranscriptIsolated ==
  /\ pc # "threw"
  /\ pc = "done" =>
       \A t \in 1..Len(transcripts) :
          IF Malformed(transcripts[t])
            THEN \A i \in 1..Len(finalConsolidatedQuestions) :
                    finalConsolidatedQuestions[i].transcriptId # transcripts[t].id
            ELSE Cardinality({ i \in 1..Len(finalConsolidatedQuestions) :
                                 finalConsolidatedQuestions[i].transcriptId
                                   = transcripts[t].id })
                   = Len(extractAnalystQuestionsFromSingleTranscript(
                           transcripts[t], globalOperatorAnalystInfo, 1))

\* C9: phase 1 overwrites the company of a record only if an operator turn
\* of the record's own transcript introduced its analystName.
C9_Phase1TranscriptLocal ==
  pc \in {"phase2", "done", "reconsolidated"} =>
    \A r \in 1..Len(allQuestions) :
       ByRef(transcriptProcessedQuestions, r).analystCompany # allQuestions[r].analystCompany
       => \E t \in 1..Len(transcripts) :
             /\ transcripts[t].id = allQuestions[r].transcriptId
             /\ allQuestions[r].analystName
                  \in DOMAIN extractOperatorAnalystInfo(transcripts[t])

\* C10: after consolidation two records of one symbol whose display names
\* normalize to the same canonical name have that canonical name as
\* analystName and the same analystCompany.
C10_OneIdentityOneNameOneCompany ==
  Consolidated =>
    \A i, j \in 1..Len(allQuestions) :
       SameIdentity(allQuestions[i], allQuestions[j]) =>
         /\ ByRef(finalConsolidatedQuestions, i).analystName = CanonicalName(allQuestions[i])
         /\ ByRef(finalConsolidatedQuestions, j).analystName = CanonicalName(allQuestions[i])
         /\ ByRef(finalConsolidatedQuestions, i).analystCompany
              = ByRef(finalConsolidatedQuestions, j).analystCompany

\* C10 witness: "Mike Ng" and "Michael Ng", created with different companies
\* in two transcripts of one symbol, end as one name with one company.
C10_Witness ==
  /\ pc = "done"
  /\ \E i, j \in 1..Len(allQuestions) :
        /\ allQuestions[i].symbol = allQuestions[j].symbol
        /\ allQuestions[i].transcriptId # allQuestions[j].transcriptId
        /\ allQuestions[i].analystName = MikeNg
        /\ allQuestions[j].analystName = MichaelNg
        /\ allQuestions[i].analystCompany # allQuestions[j].analystCompany
        /\ ByRef(finalConsolidatedQuestions, i).analystName = MichaelNg
        /\ ByRef(finalConsolidatedQuestions, j).analystName = MichaelNg
        /\ ByRef(finalConsolidatedQuestions, i).analystCompany
             = ByRef(finalConsolidatedQuestions, j).analystCompany

\* the transcript of the request a record comes from
TranscriptOf(q) == transcripts[CHOOSE t \in 1..Len(transcripts) : transcripts[t].id = q.transcriptId]

\* C11: when consolidation has returned, a record whose transcript has no
\* operator attribution and which is alone in its symbol group has the field
\* values it had before.
C11_ConsolidationNoOp ==
  Consolidated =>
    \A r \in 1..Len(allQuestions) :
       ( /\ DOMAIN extractOperatorAnalystInfo(TranscriptOf(allQuestions[r])) = {}
         /\ \A k \in 1..Len(allQuestions) :
               allQuestions[k].symbol = allQuestions[r].symbol => k = r )
       => ByRef(finalConsolidatedQuestions, r) = allQuestions[r]

\* a call of fn has returned
Returned(fn) == call.fn = fn /\ call.returned

\* the turn's content holds question-session language
QuestionSessionLanguage(turn) ==
  LET content == toLowerCase(ContentWords(turn.content))
  IN  \/ Includes(content, <<"question">>)
      \/ Includes(content, <<"next", "question">>)
      \/ Includes(content, <<"first", "question">>)
      \/ Includes(content, <<"our", "next", "caller">>)

\* the turn opens the Q&A section: an analyst by the analyst test, or an
\* operator with question-session language
OpensQA(turn) ==
  \/ isAnalyst(OrEmpty(turn.title))
  \/ /\ Includes(toLowerCase(OrEmpty(turn.title)), <<"operator">>)
     /\ QuestionSessionLanguage(turn)

\* C12: the Q&A boundary of extractPreparedStatements is the index of the
\* first turn, index 0 included, that is an analyst by the analyst test or an
\* operator turn with question-session language, and the number of turns
\* when there is no such turn.
C12_BoundaryAtFirstQATurn ==
  Returned("extractPreparedStatements") =>
    LET turns == PreparedSpeakers(call.arg.content)
        opening == { i \in 0..(Len(turns) - 1) : OpensQA(turns[i + 1]) }
    IN  call.result.qaStartIndex =
          IF opening = {} THEN Len(turns)
          ELSE CHOOSE i \in opening : \A j \in opening : i <= j

\* the turn is one extractPreparedStatements has to keep: executive, not
\* analyst, not operator, not investor relations, more than 100 characters
\* after trimming
KeptAsStatement(turn) ==
  LET title == toLowerCase(OrEmpty(turn.title))
  IN  /\ \E execTitle \in executiveTitles : Includes(title, execTitle)
      /\ ~isAnalyst(OrEmpty(turn.title))
      /\ ~Includes(title, <<"operator">>)
      /\ ~Includes(title, <<"investor", "relations">>)
      /\ StrLength(Trim(ContentWords(turn.content))) > 100

\* C13: the statements returned are, in turn order and with the full trimmed
\* text, those of the turns before the Q&A boundary that are executive, not
\* analyst, not operator, not investor relations and longer than 100
\* characters after trimming, one record each and no other record.
C13_StatementsOfLongExecutiveTurns ==
  Returned("extractPreparedStatements") =>
    LET turns == PreparedSpeakers(call.arg.content)
        kept == SelectSeq(SubSeq(turns, 1, call.result.qaStartIndex), KeptAsStatement)
        statements == call.result.statements
    IN  /\ Len(statements) = Len(kept)
        /\ \A k \in 1..Len(kept) :
              /\ statements[k].statement = Trim(ContentWords(kept[k].content))
              /\ statements[k].speakerTitle = kept[k].title

\* the matches of a sequence that pass the cleanup, as cleaned name and company
Accepted(matches) ==
  LET cleaned == [i \in 1..Len(matches) |->
                    [name |-> CleanAnalystName(matches[i].name),
                     company |-> CleanCompany(matches[i].company)]]
  IN  SelectSeq(cleaned, LAMBDA m : StrLength(m.name) > 0 /\ StrLength(m.company) > 0)

\* the turn is classified as operator: its title contains "operator"
ClassifiedOperator(turn) == Includes(toLowerCase(OrEmpty(turn.title)), <<"operator">>)

\* the names introduced in the turns of the transcripts that are classified
\* as operator, by the four patterns or (ten) by the ten patterns
NamesFromOperatorTurns(ts, ten) ==
  LET turns == UNION { { ParseSegments(ts[t].content)[i] :
                           i \in 1..Len(ParseSegments(ts[t].content)) } : t \in 1..Len(ts) }
      found(turn) == Accepted(IF ten THEN PatternMatchesOfTen(turn.content)
                              ELSE PatternMatches(turn.content))
  IN  UNION { { found(turn)[k].name : k \in 1..Len(found(turn)) } :
              turn \in { u \in turns : ClassifiedOperator(u) } }

\* C14: in the multi-transcript path and in the single-transcript path the
\* names of the attribution map are those introduced in the turns whose title
\* contains "operator": each of these turns is scanned, no other turn is.
C14_EntriesFromOperatorTitledTurns ==
  /\ Returned("firstPass") =>
       DOMAIN call.result = NamesFromOperatorTurns(call.arg, FALSE)
  /\ Returned("extractAnalystQuestions.firstPass") =>
       DOMAIN call.result = NamesFromOperatorTurns(<<call.arg>>, TRUE)

\* the accepted matches of the turns the first pass scans, in the order it
\* processes them: transcript by transcript, turn by turn, pattern by pattern
ScannedMatches(ts) ==
  Concat([t \in 1..Len(ts) |->
            LET segments == ParseSegments(ts[t].content)
            IN  Concat([i \in 1..Len(segments) |->
                          IF IsOperatorSegment(segments[i])
                            THEN Accepted(PatternMatches(segments[i].content))
                            ELSE << >>])])

\* C15: the request-wide attribution map has an entry for every name of an
\* accepted match, and the entry of a name is the company of the match
\* processed last for it: the last one of the last transcript that has the name.
C15_LastMatchWins ==
  Returned("firstPass") =>
    LET matches == ScannedMatches(call.arg)
    IN  /\ DOMAIN call.result = { matches[k].name : k \in 1..Len(matches) }
        /\ \A k \in 1..Len(matches) :
              (\A m \in (k + 1)..Len(matches) : matches[m].name # matches[k].name)
              => call.result[matches[k].name] = matches[k].company

\* C15 witness: two transcripts introduce Michael Ng, the second one twice
\* and with two companies; the entry is the company of its last introduction,
\* and the entries the other patterns give in the same turns are there too.
C15_Witness ==
  /\ Returned("firstPass")
  /\ Len(call.arg) = 2
  /\ call.arg[1].content.items = <<OperatorTurn(MichaelNg, <<"Barclays">>)>>
  /\ call.arg[2].content.items = <<OperatorTurn(MichaelNg, <<"Barclays">>),
                                   OperatorTurn(MichaelNg, <<"Goldman">>)>>
  /\ call.result[MichaelNg] = <<"Goldman">>
  /\ call.result[<<"next", "question", "comes">>] = <<"Michael", "Ng", "with", "Goldman">>

\* the title, lower-cased, contains one of the fragments
HasFragment(title, fragments) ==
  \E f \in fragments : Includes(toLowerCase(title), f)

\* C16: each of the three analyst tests (the one-transcript function of the
\* multi-transcript path, the single-transcript path, the client library)
\* accepts a title iff it contains "analyst", "research" or "equity" and none
\* of "operator", "ceo", "cfo", "investor relations": an exclusion wins.
C16_AnalystTestOfEveryExtractor ==
  \A fn \in {"isAnalyst", "extractAnalystQuestions.isAnalyst", "client.isAnalyst"} :
     Returned(fn) =>
       call.result = ( /\ HasFragment(call.arg, {<<"analyst">>, <<"research">>, <<"equity">>})
                       /\ ~HasFragment(call.arg, {<<"operator">>, <<"ceo">>, <<"cfo">>,
                                                  <<"investor", "relations">>}) )

\* the turn is classified analyst and its content is a question
Qualifies(turn) == isAnalyst(turn.title) /\ hasQuestion(turn.content)

RECURSIVE QualifyingUpTo(_, _)
\* the positions of the qualifying turns among the first n, in turn order
QualifyingUpTo(turns, n) ==
  IF n = 0 THEN << >>
  ELSE QualifyingUpTo(turns, n - 1) \o (IF Qualifies(turns[n]) THEN <<n>> ELSE << >>)

\* C17: extractAnalystQuestionsFromSingleTranscript returns one record per
\* qualifying turn, in turn order, and nothing else; an analyst's "Can you
\* comment on margins" qualifies and "Thank you for the update." does not.
C17_OneRecordPerQualifyingTurn ==
  Returned("extractAnalystQuestionsFromSingleTranscript") =>
    LET turns == call.arg.content.items
        kept == QualifyingUpTo(turns, Len(turns))
    IN  /\ Len(call.result) = Len(kept)
        /\ \A k \in 1..Len(kept) :
              /\ call.result[k].analystName = Trim(turns[kept[k]].speaker)
              /\ call.result[k].analystTitle = Trim(turns[kept[k]].title)
              /\ call.result[k].question = Trim(ContentWords(turns[kept[k]].content))
        /\ \A i \in 1..Len(turns) :
              /\ isAnalyst(turns[i].title) /\ turns[i].content = CanYouComment
                   => \E k \in 1..Len(kept) : kept[k] = i
              /\ turns[i].content = ThankYou
                   => \A k \in 1..Len(kept) : kept[k] # i

\* C17 witness: an analyst thanks, then an analyst asks the same thing twice
\* without a question mark; the last two turns give one record each
C17_Witness ==
  /\ Returned("extractAnalystQuestionsFromSingleTranscript")
  /\ Len(call.arg.content.items) = 3
  /\ call.arg.content.items[1].content = ThankYou
  /\ call.arg.content.items[1].title = <<"Equity", "Research">>
  /\ call.arg.content.items[2].content = CanYouComment
  /\ call.arg.content.items[3] = call.arg.content.items[2]
  /\ call.arg.content.items[2].title = <<"Analyst">>
  /\ Len(call.result) = 2
  /\ call.result[1].question = <<"Can", "you", "comment", "on", "margins">>
  /\ call.result[2].question = call.result[1].question

\* the key of entry i of the table is a substring of the lower-cased company
KeyMatches(i, company) == Includes(toLowerCase(company), institutions[i][1])

\* C18: normalizeCompanyName returns the canonical name of the first entry,
\* in table order, whose key is a substring of the lower-cased input, and the
\* input itself when no key matches; only the input "Unknown" gives "Unknown".
C18_FirstTableEntryWins ==
  Returned("normalizeCompanyName") =>
    /\ \A i \in 1..Len(institutions) :
          (KeyMatches(i, call.arg) /\ \A j \in 1..(i - 1) : ~KeyMatches(j, call.arg))
          => call.result = institutions[i][2]
    /\ (\A i \in 1..Len(institutions) : ~KeyMatches(i, call.arg)) => call.result = call.arg
    /\ call.result = Unknown => call.arg = Unknown
    /\ call.arg = <<"JP", "Morgan", "Stanley">> => call.result = <<"JPMorgan", "Chase">>
    /\ call.arg = <<"Acme", "Partners">> => call.result = <<"Acme", "Partners">>

\* C18 witness: "Barclays and Goldman" holds the keys of two entries; the
\* entry that comes first in the table gives the result
C18_Witness ==
  /\ Returned("normalizeCompanyName")
  /\ call.arg = <<"Barclays", "and", "Goldman">>
  /\ KeyMatches(3, call.arg) /\ KeyMatches(6, call.arg)
  /\ call.result = <<"Goldman", "Sachs">>

\* the whitespace-separated tokens of a display name
Tokens(name) == SelectSeq(name, LAMBDA w : w # "")

\* the nickname-table value of a lower-cased first token, else the token
FullFirstName(token) ==
  IF token \in DOMAIN nameVariations THEN nameVariations[token] ELSE token

\* C19: the canonical name is the capitalized full form of the lower-cased
\* first token, one space, and the capitalized lower-cased last token; the
\* spellings of Mike Ng that differ in nickname, letter case, surrounding or
\* inner whitespace or a middle token all give "Michael Ng".
C19_CanonicalNameOfFirstAndLastToken ==
  Returned("normalizeAnalystName") =>
    LET tokens == Tokens(call.arg)
    IN  /\ tokens # << >> =>
              call.result = << Capitalize(FullFirstName(LowerWord(tokens[1]))),
                               Capitalize(LowerWord(tokens[Len(tokens)])) >>
        /\ call.arg \in { MikeNg, MichaelNg, PaddedMikeNg, <<"MIKE", "NG">>, <<"mike", "ng">>,
                           <<"Mike", "J.", "Ng">>, <<"Michael", "", "Ng", "">> }
              => call.result = <<"Michael", "Ng">>
        /\ call.arg = <<"Jane", "Mike", "Doe">> => call.result = JaneDoe

\* C19 witness: "Mike J. Ng" loses its middle token and its nickname
C19_Witness ==
  /\ Returned("normalizeAnalystName")
  /\ call.arg = <<"Mike", "J.", "Ng">>
  /\ call.result = <<"Michael", "Ng">>

\* the created record has no institution of its own: the operator map has no
\* entry for its analystName and its title gives no company
NoInstitutionSignal(q) ==
  /\ Trim(q.analystName) \notin DOMAIN globalOperatorAnalystInfo
  /\ extractCompany(q.analystTitle) = Unknown

\* C20: the final analystCompany of a record is "Unknown" iff neither the
\* record nor any other record of its identity group (same symbol, same
\* normalized name) has an operator introduction for its analystName or a
\* company in its title; otherwise it is a non-empty string.
C20_UnknownIffNoInstitutionSignal ==
  Consolidated =>
    \A r \in 1..Len(allQuestions) :
       LET company == ByRef(finalConsolidatedQuestions, r).analystCompany
       IN  /\ company = Unknown <=>
                \A k \in 1..Len(allQuestions) :
                   SameIdentity(allQuestions[k], allQuestions[r])
                   => NoInstitutionSignal(allQuestions[k])
           /\ company # Unknown => StrLength(company) > 0

\* C20 witness: a record without any institution of its own gets the one of
\* another record of its group, and a record of a group without any stays
\* "Unknown"
C20_Witness ==
  /\ pc = "done"
  /\ \E r, k, u \in 1..Len(allQuestions) :
        /\ NoInstitutionSignal(allQuestions[r])
        /\ k # r
        /\ SameIdentity(allQuestions[k], allQuestions[r])
        /\ ~NoInstitutionSignal(allQuestions[k])
        /\ ByRef(finalConsolidatedQuestions, r).analystCompany # Unknown
        /\ NoInstitutionSignal(allQuestions[u])
        /\ ByRef(finalConsolidatedQuestions, u).analystCompany = Unknown

\* C24: when the members of an identity group have different companies other
\* than "Unknown" after phase 1, every member ends with the company of the
\* last of these members in input order, whether or not that company came
\* from an operator introduction.
C24_LastKnownMemberDecides ==
  Consolidated =>
    \A r \in 1..Len(allQuestions) :
       LET known == KnownAfterPhase1(allQuestions[r])
       IN  (\E k, m \in known : transcriptProcessedQuestions[k].analystCompany
                                  # transcriptProcessedQuestions[m].analystCompany)
           => ByRef(finalConsolidatedQuestions, r).analystCompany
                = transcriptProcessedQuestions[
                    CHOOSE k \in known : \A m \in known : m <= k].analystCompany

\* C24 witness: the first member of a group has its company from an operator
\* introduction, a later member has another one from its title; both end
\* with the company of the title
C24_Witness ==
  /\ pc = "done"
  /\ \E i, j \in 1..Len(transcriptProcessedQuestions) :
        /\ i < j
        /\ SameIdentity(ByRef(allQuestions, transcriptProcessedQuestions[i].ref),
                        ByRef(allQuestions, transcriptProcessedQuestions[j].ref))
        /\ Trim(transcriptProcessedQuestions[i].analystName) \in DOMAIN globalOperatorAnalystInfo
        /\ Trim(transcriptProcessedQuestions[j].analystName) \notin DOMAIN globalOperatorAnalystInfo
        /\ transcriptProcessedQuestions[j].analystCompany # Unknown
        /\ transcriptProcessedQuestions[i].analystCompany
             # transcriptProcessedQuestions[j].analystCompany
        /\ \A k \in (j + 1)..Len(transcriptProcessedQuestions) :
              ~SameIdentity(ByRef(allQuestions, transcriptProcessedQuestions[k].ref),
                            ByRef(allQuestions, transcriptProcessedQuestions[j].ref))
        /\ ByRef(finalConsolidatedQuestions, transcriptProcessedQuestions[i].ref).analystCompany
             = transcriptProcessedQuestions[j].analystCompany
        /\ ByRef(finalConsolidatedQuestions, transcriptProcessedQuestions[j].ref).analystCompany
             = transcriptProcessedQuestions[j].analystCompany

\* C28: the turn list the question pipeline derives from a content is the
\* turn list the prepared-statement pipeline derives from it.
C28_SameSegmentation ==
  /\ Returned("extractAnalystQuestionsFromSingleTranscript.segments")
       => call.result = PreparedSpeakers(call.arg.content)
  /\ Returned("extractPreparedStatements.speakers")
       => call.result = ParseSegments(call.arg.content)

\* C29: called with the name of a mapped folder as analystName,
\* uploadAnalystExcel derives that same folder name.
C29_FolderNameIsFixedPoint ==
  ( /\ Returned("uploadAnalystExcel.mappedFolderName")
    /\ Len(call.arg.analystName) = 1
    /\ call.arg.analystName[1] \in FolderNames )
  => call.result = call.arg.analystName[1]

\* every call of uploadAnalystExcel has returned
Quiescent == \A c \in Clients : ~InProgress(c)

\* the folders named name whose parent is a root folder
AnalystFoldersNamed(name) ==
  SelectSeq(googleDrive.folders,
            LAMBDA f : /\ f.name = name
                       /\ \E i \in 1..Len(googleDrive.folders) :
                            /\ googleDrive.folders[i].id = f.parent
                            /\ googleDrive.folders[i].name = rootFolderName
                            /\ googleDrive.folders[i].parent = Null)

\* C27: whatever the interleaving of the calls of uploadAnalystExcel, Drive
\* holds at most one root folder and at most one folder for each analyst
\* name, and the calls for one analyst name get the same folder id from
\* findOrCreateAnalystFolder.
C27_FoldersCreatedOnce ==
  /\ Len(FoldersNamed(googleDrive, rootFolderName, Null)) <= 1
  /\ \A i \in 1..Len(googleDrive.folders) :
       Len(AnalystFoldersNamed(googleDrive.folders[i].name)) <= 1
  /\ \A c, d \in Clients :
       /\ uploads[c].folderId # Null /\ uploads[d].folderId # Null
       /\ MappedFolderNameOf(uploads[c]) = MappedFolderNameOf(uploads[d])
       => uploads[c].folderId = uploads[d].folderId

\* no two entries of the list have the same question, symbol, quarter and year
NoDuplicates(questions) ==
  \A i, j \in 1..Len(questions) : i # j => KeyOf(questions[i]) # KeyOf(questions[j])

\* C25: starting from no file, no sheet written by uploadAnalystExcel holds two
\* entries with the same question, symbol, quarter and year, also when the
\* list of one call repeats an entry and when the call creates the file.
C25_NoDuplicateEntries ==
  \A i \in 1..Len(googleDrive.files) :
    NoDuplicates(QuestionsOfRows(googleDrive.files[i].rows))

\* the call of client c has merged questions that the downloaded sheet all holds
Redundant(c) ==
  /\ uploads[c].pc = "write"
  /\ uploads[c].existingFileId # Null
  /\ KeysOf(uploads[c].questions) \subseteq KeysOf(uploads[c].existingQuestions)

\* C23: when every passed question is already in the analyst's file (so also
\* when the list is empty), the call leaves Drive as it is and does not return
\* isUpdate = true.
C23_RedundantUpdateSkipped ==
  [][\A c \in Clients :
       Redundant(c) /\ uploads'[c].pc = "returned"
       => googleDrive' = googleDrive /\ ~uploads'[c].isUpdate]_vars

\* the call of client c has merged its questions with those of an existing file
Merged(c) == uploads[c].pc \in {"write", "returned"} /\ uploads[c].existingFileId # Null

\* the entry is one of the questions downloaded from the existing file
FromFile(c, q) == KeyOf(q) \in KeysOf(uploads[c].existingQuestions)

\* C22: in the list a call writes back after merging with an existing file,
\* every entry that was not in the file stands before every entry that was.
C22_NewEntriesOnTop ==
  \A c \in Clients :
    Merged(c) =>
      \A i, j \in 1..Len(uploads[c].allQuestions) :
        /\ ~FromFile(c, uploads[c].allQuestions[i])
        /\ FromFile(c, uploads[c].allQuestions[j])
        => i < j

\* a call has written back a list with an entry of an earlier quarter that was
\* not in the file and an entry of a later quarter that was
C22_Witness ==
  \E c \in Clients :
    /\ uploads[c].pc = "returned" /\ uploads[c].isUpdate
    /\ \E i, j \in 1..Len(uploads[c].allQuestions) :
         /\ ~FromFile(c, uploads[c].allQuestions[i])
         /\ FromFile(c, uploads[c].allQuestions[j])
         /\ quarterToNumber(uploads[c].allQuestions[i].quarter)
              < quarterToNumber(uploads[c].allQuestions[j].quarter)

\* every question the calls made so far oblige the file of its analyst to hold
\* is among the questions stored for that analyst
NothingLost ==
  \A d \in history.due : d[2] \in KeysOf(StoredQuestions(googleDrive, d[1]))

\* C21: after any sequence of calls of uploadAnalystExcel, one after the other,
\* the stored list of an analyst holds every question that was in the file
\* before each call and every question passed to a call.
C21_MergeLosesNoData ==
  Quiescent /\ ~history.overlap => NothingLost

\* C26: when calls of uploadAnalystExcel for the same analyst file run at the
\* same time and every download of the existing file succeeds, the file holds
\* the questions of all of them once they have returned.
C26_NoLostUpdate ==
  Quiescent /\ ~history.downloadFailed => NothingLost

\* this.drive is a Drive client
HasDriveClient == service.drive \in {"serviceAccount", "oauth2Client"}

\* C30: once an authentication has succeeded (and no later setCredentials has
\* failed), isAuthenticated stays true whatever the still-running
\* initializeDirectAuth does; and whenever isAuthenticated is true the Drive
\* client is not null.
C30_AuthenticationStays ==
  /\ authCalls.established => service.isAuthenticated
  /\ service.isAuthenticated => HasDriveClient

====
